---------------------------- MODULE Spec2Model ----------------------------
(***************************************************************************)
(* Model of the raylib auction application (src/main.c): the frame loop    *)
(* of main with its six screens, the seven input boxes, the auction        *)
(* catalog, the credential store and its users.txt file.                   *)
(*                                                                         *)
(* Characters are their codes (a C char), C strings are sequences of       *)
(* codes without the terminating 0, a 21-byte text buffer is a function    *)
(* on 0..MAX_INPUT_CHARS.  An unsigned int is a pair of 16-bit halves      *)
(* [hi, lo], the arithmetic being done modulo 2^32 half by half.  A float  *)
(* is [k, v]: k = "num" with the integer value v, "nan", or "inf" with the *)
(* sign v.  The message timer and the frame time, floats too, are counted  *)
(* in ticks of 2^-25 second, of which every float from 1/4 second up is a  *)
(* whole number.                                                           *)
(***************************************************************************)
EXTENDS Integers, Sequences, FiniteSets, TLC

\* ------------------------------------------------------------ constants
MAX_USERS == 10
MAX_INPUT_CHARS == 20
UI_MESSAGE_DURATION == 3
screenWidth == 800
screenHeight == 600

\* ------------------------------------------------------------ bounds
\* Decimal values at or above HugeAmount are parsed as HugeAmount: every
\* one of them is a float above the bid ceiling.
HugeAmount == 2000000000
\* The keyboard is used on a field holding at most MaxPrefix characters.
MaxPrefix == 0
\* HashPassword is called on passwords of at most MaxHashLen characters.
MaxHashLen == 5

\* ------------------------------------------------------------ C strings
IsSpace(c) == c = 32 \/ (c >= 9 /\ c <= 13)
IsDigit(c) == c >= 48 /\ c <= 57

\* tolower of <ctype.h> for the letters strtof compares without case.
ToLower(c) == IF c >= 65 /\ c <= 90 THEN c + 32 ELSE c

\* strcmp(a, b) == 0
StrEq(a, b) == a = b

\* strlen(s)
StrLen(s) == Len(s)

\* s without its first n characters
Drop(s, n) == IF n >= Len(s) THEN <<>> ELSE SubSeq(s, n + 1, Len(s))

\* the number of leading characters of s that satisfy isspace
RECURSIVE SkipSpace(_)
SkipSpace(s) ==
    IF s # <<>> /\ IsSpace(Head(s)) THEN SkipSpace(Tail(s)) ELSE s

\* the longest prefix of s made of digits
RECURSIVE DigitPrefix(_)
DigitPrefix(s) ==
    IF s # <<>> /\ IsDigit(Head(s))
    THEN <<Head(s)>> \o DigitPrefix(Tail(s))
    ELSE <<>>

\* the longest prefix of s free of white space (a %s token)
RECURSIVE TokenPrefix(_)
TokenPrefix(s) ==
    IF s # <<>> /\ ~IsSpace(Head(s))
    THEN <<Head(s)>> \o TokenPrefix(Tail(s))
    ELSE <<>>

\* whether s starts with the word w, letters compared without case
StartsWithNoCase(s, w) ==
    /\ Len(s) >= Len(w)
    /\ \A i \in 1..Len(w) : ToLower(s[i]) = w[i]

\* ------------------------------------------------------------ unsigned int
U16 == 2^16

U32(hi, lo) == [hi |-> hi, lo |-> lo]

\* (h * m + a) mod 2^32 for small m and a
U32MulAdd(h, m, a) ==
    LET l == h.lo * m + a
    IN  U32((h.hi * m + l \div U16) % U16, l % U16)

\* (0 - h) mod 2^32
U32Neg(h) ==
    IF h.lo = 0 THEN U32((U16 - h.hi) % U16, 0)
    ELSE U32(U16 - 1 - h.hi, U16 - h.lo)

\* h divided by 10: the quotient and the remainder
U32DivMod10(h) ==
    LET r1 == h.hi % 10
        l  == r1 * U16 + h.lo
    IN  [q |-> U32(h.hi \div 10, l \div 10), r |-> l % 10]

\* the decimal digits that %u prints
RECURSIVE U32Digits(_)
U32Digits(h) ==
    LET d == U32DivMod10(h)
    IN  IF d.q = U32(0, 0) THEN <<48 + d.r>>
        ELSE U32Digits(d.q) \o <<48 + d.r>>

\* the value %u reads from a run of digits (modulo 2^32)
RECURSIVE U32OfDigits(_, _)
U32OfDigits(acc, ds) ==
    IF ds = <<>> THEN acc
    ELSE U32OfDigits(U32MulAdd(acc, 10, Head(ds) - 48), Tail(ds))

\* HashPassword: djb2, hash = hash * 33 + c over the bytes of password
RECURSIVE HashFrom(_, _)
HashFrom(hash, password) ==
    IF password = <<>> THEN hash
    ELSE HashFrom(U32MulAdd(hash, 33, Head(password)), Tail(password))

\* a variant that starts from 0
HashPasswordFromZero(password) == HashFrom(U32(0, 0), password)

HashPassword(password) == HashFrom(U32(0, 5381), password)

\* ------------------------------------------------------------ float
F(n) == [k |-> "num", v |-> n]
NaN == [k |-> "nan", v |-> 0]
Inf(sign) == [k |-> "inf", v |-> sign]

\* a <= b and a > b of IEEE 754: false as soon as one side is a NaN
FRank(a) == IF a.k = "inf" THEN a.v ELSE 0
FLe(a, b) ==
    /\ a.k # "nan" /\ b.k # "nan"
    /\ \/ FRank(a) < FRank(b)
       \/ FRank(a) = FRank(b) /\ (a.k = "inf" \/ a.v <= b.v)
FGt(a, b) ==
    /\ a.k # "nan" /\ b.k # "nan"
    /\ \/ FRank(a) > FRank(b)
       \/ FRank(a) = FRank(b) /\ a.k = "num" /\ a.v > b.v

\* the unit in the last place of the binary32 nearest to n: the least power
\* of two u with n / u below 2^24
RECURSIVE Ulp(_, _)
Ulp(n, u) == IF n \div u < 2^24 THEN u ELSE Ulp(n, 2 * u)

\* the binary32 nearest to the natural number n, ties to even
RoundToFloat(n) ==
    LET u == Ulp(n, 1)
        q == n \div u
        r == n % u
        up == u > 1 /\ (2 * r > u \/ (2 * r = u /\ q % 2 = 1))
    IN  IF up THEN (q + 1) * u ELSE q * u

\* the value of a run of decimal digits, HugeAmount standing for every
\* value at or above it
RECURSIVE DecValue(_, _)
DecValue(acc, ds) ==
    IF ds = <<>> THEN acc
    ELSE LET d == Head(ds) - 48
         IN  IF acc > (HugeAmount - d) \div 10
             THEN DecValue(HugeAmount, Tail(ds))
             ELSE DecValue(acc * 10 + d, Tail(ds))

\* strtof(s, NULL) on the forms the fields of the model receive: white
\* space, a sign, then "inf", "nan" or decimal digits; the conversion stops
\* at the first other character and is 0 when nothing converts.  Fractions,
\* exponents and hexadecimal forms are not typed in the model.
StrToFMagnitude(s) ==
    IF StartsWithNoCase(s, <<105, 110, 102>>) THEN Inf(1)
    ELSE IF StartsWithNoCase(s, <<110, 97, 110>>) THEN NaN
    ELSE F(RoundToFloat(DecValue(0, DigitPrefix(s))))

StrToF(s) ==
    LET t == SkipSpace(s)
        neg == t # <<>> /\ Head(t) = 45
        body == IF t # <<>> /\ Head(t) \in {43, 45} THEN Tail(t) ELSE t
        m == StrToFMagnitude(body)
    IN  IF neg /\ m.k # "nan" THEN [m EXCEPT !.v = 0 - m.v] ELSE m

\* The floats of the message timer: TicksPerSecond ticks make a second.
TicksPerSecond == 2^25

\* a - b in binary32 for two floats that are whole numbers (of ticks)
FloatSub(a, b) ==
    IF a >= b THEN RoundToFloat(a - b) ELSE 0 - RoundToFloat(b - a)

\* the float literal 999999999.0f
BidCeiling == F(RoundToFloat(999999999))

\* ------------------------------------------------------------ users.txt
User(username, hashedPassword) ==
    [username |-> username, hashedPassword |-> hashedPassword]

\* fprintf(file, "%s %u\n", username, hashedPassword)
UserLine(u) == u.username \o <<32>> \o U32Digits(u.hashedPassword) \o <<10>>

RECURSIVE FileText(_)
FileText(us) ==
    IF us = <<>> THEN <<>> ELSE UserLine(Head(us)) \o FileText(Tail(us))

\* the loop of LoadUsers: fscanf(file, "%s %u") until it converts fewer
\* than two fields or MAX_USERS are read.  %s skips white space and takes the
\* characters up to the next white space; %u skips white space and takes an
\* optional sign and digits.
RECURSIVE ScanUsers(_, _)
ScanUsers(text, acc) ==
    LET t1 == SkipSpace(text)
        name == TokenPrefix(t1)
        t2 == SkipSpace(Drop(t1, Len(name)))
        neg == t2 # <<>> /\ Head(t2) = 45
        t3 == IF t2 # <<>> /\ Head(t2) \in {43, 45} THEN Tail(t2) ELSE t2
        ds == DigitPrefix(t3)
        n == U32OfDigits(U32(0, 0), ds)
        h == IF neg THEN U32Neg(n) ELSE n
    IN  IF Len(acc) >= MAX_USERS \/ name = <<>> \/ ds = <<>> THEN acc
        ELSE ScanUsers(Drop(t3, Len(ds)), Append(acc, User(name, h)))

\* ------------------------------------------------------------ geometry
Rectangle(x, y, width, height) ==
    [x |-> x, y |-> y, width |-> width, height |-> height]
Vector2(x, y) == [x |-> x, y |-> y]

\* raylib's CheckCollisionPointRec
CheckCollisionPointRec(point, rec) ==
    /\ point.x >= rec.x /\ point.x < rec.x + rec.width
    /\ point.y >= rec.y /\ point.y < rec.y + rec.height

\* the rectangles of the input boxes (main, initialisation)
bidAmountRect == Rectangle(screenWidth \div 2 - 100, 300, 200, 40)
bidderNameRect == Rectangle(screenWidth \div 2 - 100, 380, 200, 40)
signInUsernameRect == Rectangle(screenWidth \div 2 - 120, 250, 240, 40)
signInPasswordRect == Rectangle(screenWidth \div 2 - 120, 320, 240, 40)
signUpUsernameRect == Rectangle(screenWidth \div 2 - 120, 200, 240, 40)
signUpPasswordRect == Rectangle(screenWidth \div 2 - 120, 270, 240, 40)
signUpConfirmPasswordRect == Rectangle(screenWidth \div 2 - 120, 340, 240, 40)

\* the rectangles of the buttons (main, update switch)
signInButton == Rectangle(screenWidth \div 2 - 100, screenHeight \div 2 - 50, 200, 50)
signUpButton == Rectangle(screenWidth \div 2 - 100, screenHeight \div 2 + 20, 200, 50)
loginButton == Rectangle(screenWidth \div 2 - 80, 400, 160, 50)
\* a Back button lying over the Login button
BackOverLogin == loginButton

signInBackButton == Rectangle(screenWidth \div 2 - 80, 470, 160, 50)
registerButton == Rectangle(screenWidth \div 2 - 80, 410, 160, 50)
signUpBackButton == Rectangle(screenWidth \div 2 - 80, 480, 160, 50)
itemRect(i) == Rectangle(50, 100 + i * 60, screenWidth - 100, 50)
logoutButtonRect == Rectangle(screenWidth - 150, 20, 120, 40)
backButtonRect == Rectangle(50, screenHeight - 60, 120, 40)
placeBidButtonRect == Rectangle(screenWidth - 170, screenHeight - 60, 120, 40)
bidButtonRect == Rectangle(screenWidth \div 2 - 120, 480, 100, 40)
cancelButtonRect == Rectangle(screenWidth \div 2 + 20, 480, 100, 40)

\* ------------------------------------------------------------ state
VARIABLES
    items,                      \* AuctionItem items[], indices 0..itemCount-1
    itemCount,
    selectedItemIndex,
    currentScreen,
    users,                      \* users[0..userCount-1], userCount its length
    loggedInUsername,
    bidAmountInput,
    bidderNameInput,
    signInUsernameInput,
    signInPasswordInput,
    signUpUsernameInput,
    signUpPasswordInput,
    signUpConfirmPasswordInput,
    uiMessage,                  \* the format string of the message shown
    uiMessageTimer,
    sinceMessage,               \* history: the frame time since SetUIMessage
    usersFile,                  \* users.txt: whether it exists, and its text
    lastCall,                   \* the last call made on the credential store
    lastInput                   \* what the last frame read

vars == <<items, itemCount, selectedItemIndex, currentScreen, users,
          loggedInUsername, bidAmountInput, bidderNameInput,
          signInUsernameInput, signInPasswordInput, signUpUsernameInput,
          signUpPasswordInput, signUpConfirmPasswordInput, uiMessage,
          uiMessageTimer, sinceMessage, usersFile, lastCall, lastInput>>

userCount == Len(users)

\* the program's globals as one record, on which the statements of a frame
\* act in their order
Globals ==
    [items |-> items, itemCount |-> itemCount,
     selectedItemIndex |-> selectedItemIndex,
     currentScreen |-> currentScreen, users |-> users,
     loggedInUsername |-> loggedInUsername,
     bidAmountInput |-> bidAmountInput, bidderNameInput |-> bidderNameInput,
     signInUsernameInput |-> signInUsernameInput,
     signInPasswordInput |-> signInPasswordInput,
     signUpUsernameInput |-> signUpUsernameInput,
     signUpPasswordInput |-> signUpPasswordInput,
     signUpConfirmPasswordInput |-> signUpConfirmPasswordInput,
     uiMessage |-> uiMessage, uiMessageTimer |-> uiMessageTimer,
     sinceMessage |-> sinceMessage, usersFile |-> usersFile]

Becomes(g) ==
    /\ items' = g.items
    /\ itemCount' = g.itemCount
    /\ selectedItemIndex' = g.selectedItemIndex
    /\ currentScreen' = g.currentScreen
    /\ users' = g.users
    /\ loggedInUsername' = g.loggedInUsername
    /\ bidAmountInput' = g.bidAmountInput
    /\ bidderNameInput' = g.bidderNameInput
    /\ signInUsernameInput' = g.signInUsernameInput
    /\ signInPasswordInput' = g.signInPasswordInput
    /\ signUpUsernameInput' = g.signUpUsernameInput
    /\ signUpPasswordInput' = g.signUpPasswordInput
    /\ signUpConfirmPasswordInput' = g.signUpConfirmPasswordInput
    /\ uiMessage' = g.uiMessage
    /\ uiMessageTimer' = g.uiMessageTimer
    /\ sinceMessage' = g.sinceMessage
    /\ usersFile' = g.usersFile

\* ------------------------------------------------------------ input boxes
\* (InputBox){rect, "", 0, false, DARKGRAY_CUSTOM, isPassword}
NewInputBox ==
    [text |-> [i \in 0..MAX_INPUT_CHARS |-> 0], letterCount |-> 0,
     active |-> FALSE, borderColor |-> "DARKGRAY_CUSTOM"]

\* the C string a text buffer holds: its bytes before the first 0
RECURSIVE CStrFrom(_, _)
CStrFrom(text, i) ==
    IF text[i] = 0 THEN <<>> ELSE <<text[i]>> \o CStrFrom(text, i + 1)
CStr(text) == CStrFrom(text, 0)

\* a variant of the loop that takes every character
RECURSIVE TypeKeysAnyChar(_, _)
TypeKeysAnyChar(box, keys) ==
    IF keys = <<>> \/ Head(keys) <= 0 THEN box
    ELSE IF box.letterCount < MAX_INPUT_CHARS
    THEN TypeKeysAnyChar([box EXCEPT !.text[box.letterCount] = Head(keys),
                                     !.letterCount = box.letterCount + 1],
                         Tail(keys))
    ELSE TypeKeysAnyChar(box, Tail(keys))

\* the while loop of UpdateInputBox over the characters GetCharPressed
\* returns in this frame
RECURSIVE TypeKeys(_, _)
TypeKeys(box, keys) ==
    IF keys = <<>> \/ Head(keys) <= 0 THEN box
    ELSE LET key == Head(keys)
         IN  IF key >= 32 /\ key <= 125 /\ box.letterCount < MAX_INPUT_CHARS
             THEN TypeKeys([box EXCEPT !.text[box.letterCount] = key,
                                       !.letterCount = box.letterCount + 1],
                           Tail(keys))
             ELSE TypeKeys(box, Tail(keys))

\* a variant that keeps the focus when the press is elsewhere
BoxFocusSticky(box, rect, in) ==
    IF in.pressed /\ CheckCollisionPointRec(in.mouse, rect)
    THEN [box EXCEPT !.active = TRUE, !.borderColor = "BLUE_HIGHLIGHT"]
    ELSE box

\* the mouse part of UpdateInputBox
BoxFocus(box, rect, in) ==
    IF in.pressed
    THEN IF CheckCollisionPointRec(in.mouse, rect)
         THEN [box EXCEPT !.active = TRUE, !.borderColor = "BLUE_HIGHLIGHT"]
         ELSE [box EXCEPT !.active = FALSE, !.borderColor = "DARKGRAY_CUSTOM"]
    ELSE box

\* the backspace part of UpdateInputBox
BoxBackspace(box, in) ==
    IF in.backspace /\ box.letterCount > 0
    THEN [box EXCEPT !.letterCount = box.letterCount - 1,
                     !.text[box.letterCount - 1] = 0]
    ELSE box

\* the Enter part of UpdateInputBox
BoxEnter(box, in) ==
    IF in.enter
    THEN [box EXCEPT !.active = FALSE, !.borderColor = "DARKGRAY_CUSTOM"]
    ELSE box

\* UpdateInputBox(box): the box after the call, and what is left of the
\* frame's character queue (an active box empties it)
UpdateInputBox(box, rect, in, queue) ==
    LET b1 == BoxFocus(box, rect, in)
    IN  IF b1.active
        THEN [box |-> BoxEnter(BoxBackspace(TypeKeys(b1, queue), in), in),
              queue |-> <<>>]
        ELSE [box |-> b1, queue |-> queue]

\* one box of ResetInputBoxes: strcpy(text, "") writes the first byte only
ResetBox(box) ==
    [box EXCEPT !.active = FALSE, !.borderColor = "DARKGRAY_CUSTOM",
                !.text[0] = 0, !.letterCount = 0]

ResetInputBoxes(g) ==
    [g EXCEPT !.bidAmountInput = ResetBox(g.bidAmountInput),
              !.bidderNameInput = ResetBox(g.bidderNameInput),
              !.signInUsernameInput = ResetBox(g.signInUsernameInput),
              !.signInPasswordInput = ResetBox(g.signInPasswordInput),
              !.signUpUsernameInput = ResetBox(g.signUpUsernameInput),
              !.signUpPasswordInput = ResetBox(g.signUpPasswordInput),
              !.signUpConfirmPasswordInput = ResetBox(g.signUpConfirmPasswordInput)]

\* sinceMessage is not a variable of the program: it records, for the
\* statement of properties, the frame time that has passed since the last
\* call of SetUIMessage, counted exactly and no further than the duration.
SetUIMessage(g, message) ==
    [g EXCEPT !.uiMessage = message,
              !.uiMessageTimer = UI_MESSAGE_DURATION * TicksPerSecond,
              !.sinceMessage = 0]

\* ------------------------------------------------------------ credential store
\* UsernameExists(username) over the users of g
UsernameExists(g, username) ==
    \E i \in 1..Len(g.users) : StrEq(g.users[i].username, username)

\* a variant that compares usernames without regard to letter case
AuthenticateUserNoCase(g, username, password) ==
    \E i \in 1..Len(g.users) :
        /\ [k \in DOMAIN g.users[i].username |-> ToLower(g.users[i].username[k])]
               = [k \in DOMAIN username |-> ToLower(username[k])]
        /\ g.users[i].hashedPassword = HashPassword(password)

\* AuthenticateUser(username, password) over the users of g
AuthenticateUser(g, username, password) ==
    LET inputHash == HashPassword(password)
    IN  \E i \in 1..Len(g.users) :
            /\ StrEq(g.users[i].username, username)
            /\ g.users[i].hashedPassword = inputHash

\* a variant whose failed fopen leaves an empty users.txt behind
SaveUsersTruncating(g, canWrite) ==
    IF ~canWrite
    THEN [g |-> [g EXCEPT !.usersFile = [exists |-> TRUE, text |-> <<>>]],
          ret |-> FALSE]
    ELSE [g |-> [g EXCEPT !.usersFile =
                    [exists |-> TRUE, text |-> FileText(g.users)]],
          ret |-> TRUE]

\* SaveUsers(): canWrite is whether fopen(USERS_FILE, "w") succeeds
SaveUsers(g, canWrite) ==
    IF ~canWrite THEN [g |-> g, ret |-> FALSE]
    ELSE [g |-> [g EXCEPT !.usersFile =
                    [exists |-> TRUE, text |-> FileText(g.users)]],
          ret |-> TRUE]

\* LoadUsers(): the users read from users.txt
LoadUsers(g) ==
    IF ~g.usersFile.exists THEN [g |-> g, ret |-> FALSE]
    ELSE [g |-> [g EXCEPT !.users = ScanUsers(g.usersFile.text, <<>>)],
          ret |-> TRUE]

\* a variant that adds the user only once the file could be written
RegisterUserSaveFirst(g, username, password, canWrite) ==
    IF Len(g.users) >= MAX_USERS \/ UsernameExists(g, username) \/ ~canWrite
    THEN [g |-> g, ret |-> FALSE]
    ELSE SaveUsers([g EXCEPT !.users =
                       Append(g.users, User(username, HashPassword(password)))],
                   canWrite)

\* a variant without the capacity check
RegisterUserNoCapacityCheck(g, username, password, canWrite) ==
    IF UsernameExists(g, username)
    THEN [g |-> SetUIMessage(g, "Registration failed: Username already exists."),
          ret |-> FALSE]
    ELSE SaveUsers([g EXCEPT !.users =
                       Append(g.users, User(username, HashPassword(password)))],
                   canWrite)

\* a variant without the check of UsernameExists
RegisterUserNoDuplicateCheck(g, username, password, canWrite) ==
    IF Len(g.users) >= MAX_USERS
    THEN [g |-> SetUIMessage(g, "Cannot register: maximum user limit reached."),
          ret |-> FALSE]
    ELSE SaveUsers([g EXCEPT !.users =
                       Append(g.users, User(username, HashPassword(password)))],
                   canWrite)

\* RegisterUser(username, password)
RegisterUser(g, username, password, canWrite) ==
    IF Len(g.users) >= MAX_USERS
    THEN [g |-> SetUIMessage(g, "Cannot register: maximum user limit reached."),
          ret |-> FALSE]
    ELSE IF UsernameExists(g, username)
    THEN [g |-> SetUIMessage(g, "Registration failed: Username already exists."),
          ret |-> FALSE]
    ELSE SaveUsers([g EXCEPT !.users =
                       Append(g.users, User(username, HashPassword(password)))],
                   canWrite)

\* ------------------------------------------------------------ the frame
IsMouseOver(in, rect) == CheckCollisionPointRec(in.mouse, rect)

Clicked(in, rect) == IsMouseOver(in, rect) /\ in.pressed

\* the frame time since the last SetUIMessage, after a frame of time dt
Elapsed(since, dt) ==
    IF since + dt >= UI_MESSAGE_DURATION * TicksPerSecond
    THEN UI_MESSAGE_DURATION * TicksPerSecond
    ELSE since + dt

\* a variant that clears the message only once the timer is below 0
UpdateTimerBelowZero(g, in) ==
    LET g0 == [g EXCEPT !.sinceMessage = Elapsed(g.sinceMessage, in.dt)]
    IN  IF g.uiMessageTimer > 0
        THEN LET t == FloatSub(g.uiMessageTimer, in.dt)
             IN  [g0 EXCEPT !.uiMessageTimer = t,
                            !.uiMessage = IF t < 0 THEN "" ELSE g.uiMessage]
        ELSE g0

\* the message timer update at the head of the loop body
UpdateTimer(g, in) ==
    LET g0 == [g EXCEPT !.sinceMessage = Elapsed(g.sinceMessage, in.dt)]
    IN  IF g.uiMessageTimer > 0
        THEN LET t == FloatSub(g.uiMessageTimer, in.dt)
             IN  [g0 EXCEPT !.uiMessageTimer = t,
                            !.uiMessage = IF t <= 0 THEN "" ELSE g.uiMessage]
        ELSE g0

\* case SCREEN_AUTH_MENU
UpdateAuthMenu(g, in) ==
    LET g1 == IF Clicked(in, signInButton)
              THEN SetUIMessage(
                       ResetInputBoxes([g EXCEPT !.currentScreen = "SCREEN_SIGN_IN"]),
                       "Enter your credentials.")
              ELSE g
    IN  IF Clicked(in, signUpButton)
        THEN SetUIMessage(
                 ResetInputBoxes([g1 EXCEPT !.currentScreen = "SCREEN_SIGN_UP"]),
                 "Choose a username and password.")
        ELSE g1

\* a variant that lets everyone in
LoginHandlerNoCheck(g) ==
    ResetInputBoxes(
        SetUIMessage(
            [g EXCEPT !.loggedInUsername = CStr(g.signInUsernameInput.text),
                      !.currentScreen = "SCREEN_ITEM_LIST"],
            "Welcome, %s!"))

\* a variant that empties the password field of a failed login
LoginHandlerClearsPassword(g) ==
    IF AuthenticateUser(g, CStr(g.signInUsernameInput.text),
                        CStr(g.signInPasswordInput.text))
    THEN ResetInputBoxes(
             SetUIMessage(
                 [g EXCEPT !.loggedInUsername = CStr(g.signInUsernameInput.text),
                           !.currentScreen = "SCREEN_ITEM_LIST"],
                 "Welcome, %s!"))
    ELSE SetUIMessage(
             [g EXCEPT !.signInPasswordInput = ResetBox(g.signInPasswordInput)],
             "Login failed. Check username/password.")

\* the Login handler of SCREEN_SIGN_IN
LoginHandler(g) ==
    IF AuthenticateUser(g, CStr(g.signInUsernameInput.text),
                        CStr(g.signInPasswordInput.text))
    THEN ResetInputBoxes(
             SetUIMessage(
                 [g EXCEPT !.loggedInUsername = CStr(g.signInUsernameInput.text),
                           !.currentScreen = "SCREEN_ITEM_LIST"],
                 "Welcome, %s!"))
    ELSE SetUIMessage(g, "Login failed. Check username/password.")

\* a variant in which the Enter key submits the sign-in form
UpdateSignInEnterSubmits(g, in) ==
    LET u == UpdateInputBox(g.signInUsernameInput, signInUsernameRect, in, in.chars)
        p == UpdateInputBox(g.signInPasswordInput, signInPasswordRect, in, u.queue)
        g1 == [g EXCEPT !.signInUsernameInput = u.box,
                        !.signInPasswordInput = p.box]
        g2 == IF Clicked(in, loginButton) \/ in.enter THEN LoginHandler(g1) ELSE g1
    IN  IF Clicked(in, signInBackButton)
        THEN SetUIMessage(
                 ResetInputBoxes([g2 EXCEPT !.currentScreen = "SCREEN_AUTH_MENU"]),
                 "")
        ELSE g2

\* case SCREEN_SIGN_IN
UpdateSignIn(g, in) ==
    LET u == UpdateInputBox(g.signInUsernameInput, signInUsernameRect, in, in.chars)
        p == UpdateInputBox(g.signInPasswordInput, signInPasswordRect, in, u.queue)
        g1 == [g EXCEPT !.signInUsernameInput = u.box,
                        !.signInPasswordInput = p.box]
        g2 == IF Clicked(in, loginButton) THEN LoginHandler(g1) ELSE g1
    IN  IF Clicked(in, signInBackButton)
        THEN SetUIMessage(
                 ResetInputBoxes([g2 EXCEPT !.currentScreen = "SCREEN_AUTH_MENU"]),
                 "")
        ELSE g2

\* a variant that looks for the username before comparing the passwords
RegisterHandlerTakenFirst(g, canWrite) ==
    LET username == CStr(g.signUpUsernameInput.text)
        password == CStr(g.signUpPasswordInput.text)
        confirm == CStr(g.signUpConfirmPasswordInput.text)
    IN  IF StrLen(username) < 3 \/ StrLen(password) < 5
        THEN SetUIMessage(g, "Username (min 3 chars) / Password (min 5 chars) too short.")
        ELSE IF UsernameExists(g, username)
        THEN SetUIMessage(g, "Username already taken.")
        ELSE IF ~StrEq(password, confirm)
        THEN SetUIMessage(g, "Passwords do not match!")
        ELSE LET r == RegisterUser(g, username, password, canWrite)
             IN  IF r.ret
                 THEN ResetInputBoxes(
                          [SetUIMessage(r.g, "Registration successful! Please sign in.")
                              EXCEPT !.currentScreen = "SCREEN_SIGN_IN"])
                 ELSE SetUIMessage(r.g, "Registration failed. Try again.")

\* the Register handler of SCREEN_SIGN_UP
RegisterHandler(g, canWrite) ==
    LET username == CStr(g.signUpUsernameInput.text)
        password == CStr(g.signUpPasswordInput.text)
        confirm == CStr(g.signUpConfirmPasswordInput.text)
    IN  IF StrLen(username) < 3 \/ StrLen(password) < 5
        THEN SetUIMessage(g, "Username (min 3 chars) / Password (min 5 chars) too short.")
        ELSE IF ~StrEq(password, confirm)
        THEN SetUIMessage(g, "Passwords do not match!")
        ELSE IF UsernameExists(g, username)
        THEN SetUIMessage(g, "Username already taken.")
        ELSE LET r == RegisterUser(g, username, password, canWrite)
             IN  IF r.ret
                 THEN ResetInputBoxes(
                          [SetUIMessage(r.g, "Registration successful! Please sign in.")
                              EXCEPT !.currentScreen = "SCREEN_SIGN_IN"])
                 ELSE SetUIMessage(r.g, "Registration failed. Try again.")

\* case SCREEN_SIGN_UP
UpdateSignUp(g, in, canWrite) ==
    LET u == UpdateInputBox(g.signUpUsernameInput, signUpUsernameRect, in, in.chars)
        p == UpdateInputBox(g.signUpPasswordInput, signUpPasswordRect, in, u.queue)
        c == UpdateInputBox(g.signUpConfirmPasswordInput,
                            signUpConfirmPasswordRect, in, p.queue)
        g1 == [g EXCEPT !.signUpUsernameInput = u.box,
                        !.signUpPasswordInput = p.box,
                        !.signUpConfirmPasswordInput = c.box]
        g2 == IF Clicked(in, registerButton)
              THEN RegisterHandler(g1, canWrite) ELSE g1
    IN  IF Clicked(in, signUpBackButton)
        THEN SetUIMessage(
                 ResetInputBoxes([g2 EXCEPT !.currentScreen = "SCREEN_AUTH_MENU"]),
                 "")
        ELSE g2

\* the for loop of SCREEN_ITEM_LIST from item i on: the first item whose
\* row holds the mouse is selected
RECURSIVE SelectItemFrom(_, _, _)
SelectItemFrom(g, in, i) ==
    IF i >= g.itemCount THEN g
    ELSE IF CheckCollisionPointRec(in.mouse, itemRect(i))
    THEN SetUIMessage([g EXCEPT !.selectedItemIndex = i,
                                !.currentScreen = "SCREEN_ITEM_DETAILS"], "")
    ELSE SelectItemFrom(g, in, i + 1)

\* a variant whose Logout keeps the session
UpdateItemListKeepSession(g, in) ==
    LET g1 == IF in.pressed THEN SelectItemFrom(g, in, 0) ELSE g
    IN  IF Clicked(in, logoutButtonRect)
        THEN SetUIMessage([g1 EXCEPT !.currentScreen = "SCREEN_AUTH_MENU"],
                          "Logged out successfully.")
        ELSE g1

\* case SCREEN_ITEM_LIST
UpdateItemList(g, in) ==
    LET g1 == IF in.pressed THEN SelectItemFrom(g, in, 0) ELSE g
    IN  IF Clicked(in, logoutButtonRect)
        THEN SetUIMessage([g1 EXCEPT !.loggedInUsername = <<>>,
                                     !.currentScreen = "SCREEN_AUTH_MENU"],
                          "Logged out successfully.")
        ELSE g1

\* a variant whose Place Bid does not reset the input boxes
UpdateItemDetailsNoReset(g, in) ==
    LET g1 == IF Clicked(in, backButtonRect)
              THEN SetUIMessage([g EXCEPT !.currentScreen = "SCREEN_ITEM_LIST",
                                          !.selectedItemIndex = -1], "")
              ELSE g
    IN  IF /\ g1.selectedItemIndex # -1
           /\ ~g1.items[g1.selectedItemIndex].auctionClosed
           /\ Clicked(in, placeBidButtonRect)
        THEN SetUIMessage([g1 EXCEPT !.currentScreen = "SCREEN_PLACE_BID"],
                          "Enter your bid and name.")
        ELSE g1

\* UpdateItemDetails offering Place Bid on a closed auction too
UpdateItemDetailsClosedToo(g, in) ==
    LET g1 == IF Clicked(in, backButtonRect)
              THEN SetUIMessage([g EXCEPT !.currentScreen = "SCREEN_ITEM_LIST",
                                          !.selectedItemIndex = -1], "")
              ELSE g
    IN  IF g1.selectedItemIndex # -1 /\ Clicked(in, placeBidButtonRect)
        THEN SetUIMessage(
                 ResetInputBoxes([g1 EXCEPT !.currentScreen = "SCREEN_PLACE_BID"]),
                 "Enter your bid and name.")
        ELSE g1

\* a variant whose Back keeps the item selected
UpdateItemDetailsKeepSelection(g, in) ==
    LET g1 == IF Clicked(in, backButtonRect)
              THEN SetUIMessage([g EXCEPT !.currentScreen = "SCREEN_ITEM_LIST"], "")
              ELSE g
    IN  IF /\ g1.selectedItemIndex # -1
           /\ ~g1.items[g1.selectedItemIndex].auctionClosed
           /\ Clicked(in, placeBidButtonRect)
        THEN SetUIMessage(
                 ResetInputBoxes([g1 EXCEPT !.currentScreen = "SCREEN_PLACE_BID"]),
                 "Enter your bid and name.")
        ELSE g1

\* a variant whose Back is offered only with Place Bid, while the auction of
\* the selected item is open
UpdateItemDetailsBackWhenOpen(g, in) ==
    IF g.selectedItemIndex # -1 /\ ~g.items[g.selectedItemIndex].auctionClosed
    THEN IF Clicked(in, backButtonRect)
         THEN SetUIMessage([g EXCEPT !.currentScreen = "SCREEN_ITEM_LIST",
                                     !.selectedItemIndex = -1], "")
         ELSE IF Clicked(in, placeBidButtonRect)
         THEN SetUIMessage(
                  ResetInputBoxes([g EXCEPT !.currentScreen = "SCREEN_PLACE_BID"]),
                  "Enter your bid and name.")
         ELSE g
    ELSE g

\* case SCREEN_ITEM_DETAILS
UpdateItemDetails(g, in) ==
    LET g1 == IF Clicked(in, backButtonRect)
              THEN SetUIMessage([g EXCEPT !.currentScreen = "SCREEN_ITEM_LIST",
                                          !.selectedItemIndex = -1], "")
              ELSE g
    IN  IF /\ g1.selectedItemIndex # -1
           /\ ~g1.items[g1.selectedItemIndex].auctionClosed
           /\ Clicked(in, placeBidButtonRect)
        THEN SetUIMessage(
                 ResetInputBoxes([g1 EXCEPT !.currentScreen = "SCREEN_PLACE_BID"]),
                 "Enter your bid and name.")
        ELSE g1

\* BidHandler checking the amount before the bidder's name
BidHandlerAmountFirst(g) ==
    LET newBid == StrToF(CStr(g.bidAmountInput.text))
        bidderName == CStr(g.bidderNameInput.text)
        i == g.selectedItemIndex
    IN  IF FLe(newBid, g.items[i].currentBid)
        THEN SetUIMessage(g, "Bid failed: $%.2f is not higher than current bid $%.2f")
        ELSE IF FGt(newBid, BidCeiling)
        THEN SetUIMessage(g, "Bid amount too large!")
        ELSE IF StrLen(bidderName) = 0
        THEN SetUIMessage(g, "Please enter your name to bid.")
        ELSE SetUIMessage(
                 [g EXCEPT !.items[i].currentBid = newBid,
                           !.items[i].highestBidder = bidderName,
                           !.currentScreen = "SCREEN_ITEM_DETAILS"],
                 "Bid of $%.2f placed successfully by %s!")

\* a variant that records the bidder of a bid that is too low
BidHandlerRecordsBidder(g) ==
    LET newBid == StrToF(CStr(g.bidAmountInput.text))
        bidderName == CStr(g.bidderNameInput.text)
        i == g.selectedItemIndex
    IN  IF StrLen(bidderName) = 0
        THEN SetUIMessage(g, "Please enter your name to bid.")
        ELSE IF FLe(newBid, g.items[i].currentBid)
        THEN SetUIMessage([g EXCEPT !.items[i].highestBidder = bidderName],
                          "Bid failed: $%.2f is not higher than current bid $%.2f")
        ELSE IF FGt(newBid, BidCeiling)
        THEN SetUIMessage(g, "Bid amount too large!")
        ELSE SetUIMessage(
                 [g EXCEPT !.items[i].currentBid = newBid,
                           !.items[i].highestBidder = bidderName,
                           !.currentScreen = "SCREEN_ITEM_DETAILS"],
                 "Bid of $%.2f placed successfully by %s!")

\* the "BID!" handler of SCREEN_PLACE_BID
BidHandler(g) ==
    LET newBid == StrToF(CStr(g.bidAmountInput.text))
        bidderName == CStr(g.bidderNameInput.text)
        i == g.selectedItemIndex
    IN  IF StrLen(bidderName) = 0
        THEN SetUIMessage(g, "Please enter your name to bid.")
        ELSE IF FLe(newBid, g.items[i].currentBid)
        THEN SetUIMessage(g, "Bid failed: $%.2f is not higher than current bid $%.2f")
        ELSE IF FGt(newBid, BidCeiling)
        THEN SetUIMessage(g, "Bid amount too large!")
        ELSE SetUIMessage(
                 [g EXCEPT !.items[i].currentBid = newBid,
                           !.items[i].highestBidder = bidderName,
                           !.currentScreen = "SCREEN_ITEM_DETAILS"],
                 "Bid of $%.2f placed successfully by %s!")

\* case SCREEN_PLACE_BID
UpdatePlaceBid(g, in) ==
    LET a == UpdateInputBox(g.bidAmountInput, bidAmountRect, in, in.chars)
        n == UpdateInputBox(g.bidderNameInput, bidderNameRect, in, a.queue)
        g1 == [g EXCEPT !.bidAmountInput = a.box, !.bidderNameInput = n.box]
        g2 == IF Clicked(in, bidButtonRect) THEN BidHandler(g1) ELSE g1
    IN  IF Clicked(in, cancelButtonRect)
        THEN SetUIMessage([g2 EXCEPT !.currentScreen = "SCREEN_ITEM_DETAILS"], "")
        ELSE g2

\* the update logic of one iteration of the main loop: the message timer,
\* then the case of the switch for the current screen
UpdateLogic(g, in) ==
    LET g0 == UpdateTimer(g, in)
    IN  CASE g.currentScreen = "SCREEN_AUTH_MENU" -> UpdateAuthMenu(g0, in)
          [] g.currentScreen = "SCREEN_SIGN_IN" -> UpdateSignIn(g0, in)
          [] g.currentScreen = "SCREEN_SIGN_UP" -> UpdateSignUp(g0, in, in.canWrite)
          [] g.currentScreen = "SCREEN_ITEM_LIST" -> UpdateItemList(g0, in)
          [] g.currentScreen = "SCREEN_ITEM_DETAILS" -> UpdateItemDetails(g0, in)
          [] g.currentScreen = "SCREEN_PLACE_BID" -> UpdatePlaceBid(g0, in)

\* ------------------------------------------------------------ start-up
\* InitAuctionData
SeedItems ==
    [i \in 0..2 |->
        CASE i = 0 -> [name |-> "Antique Vase",
                       description |-> "A beautiful ceramic vase from the Ming Dynasty.",
                       currentBid |-> F(1500),
                       \* "No Bids Yet"
                       highestBidder |-> <<78, 111, 32, 66, 105, 100, 115, 32, 89, 101, 116>>,
                       auctionClosed |-> FALSE]
          [] i = 1 -> [name |-> "Rare Comic Book",
                       description |-> "First edition of 'The Amazing Spider-Man #1'.",
                       currentBid |-> F(5000),
                       \* "Peter P."
                       highestBidder |-> <<80, 101, 116, 101, 114, 32, 80, 46>>,
                       auctionClosed |-> FALSE]
          [] i = 2 -> [name |-> "Vintage Guitar",
                       description |-> "1960s electric guitar, well-preserved.",
                       currentBid |-> F(2500),
                       \* "Mary J."
                       highestBidder |-> <<77, 97, 114, 121, 32, 74, 46>>,
                       auctionClosed |-> TRUE]]

NoCall == [op |-> "none", username |-> <<>>, password |-> <<>>, ret |-> FALSE]

\* the state main reaches before its loop, from the users.txt it finds
StartFrom(file) ==
    LET g0 == [items |-> SeedItems, itemCount |-> 3, selectedItemIndex |-> -1,
               currentScreen |-> "SCREEN_AUTH_MENU", users |-> <<>>,
               loggedInUsername |-> <<>>,
               bidAmountInput |-> NewInputBox, bidderNameInput |-> NewInputBox,
               signInUsernameInput |-> NewInputBox,
               signInPasswordInput |-> NewInputBox,
               signUpUsernameInput |-> NewInputBox,
               signUpPasswordInput |-> NewInputBox,
               signUpConfirmPasswordInput |-> NewInputBox,
               uiMessage |-> "", uiMessageTimer |-> 0,
               sinceMessage |-> UI_MESSAGE_DURATION * TicksPerSecond,
               usersFile |-> file]
    IN  LoadUsers(g0).g

\* ------------------------------------------------------------ environment
\* the words typed and the files found at start-up
bobby == <<98, 111, 98, 98, 121>>                       \* "bobby"
nan == <<110, 97, 110>>                                 \* "nan"
w1600 == <<49, 54, 48, 48>>                             \* "1600"
w999999999 == <<57, 57, 57, 57, 57, 57, 57, 57, 57>>    \* "999999999"
w1000000000 == <<49, 48, 48, 48, 48, 48, 48, 48, 48, 48>> \* "1000000000"
w1000000100 == <<49, 48, 48, 48, 48, 48, 48, 49, 48, 48>> \* "1000000100"
wa == <<97>>                                            \* "a"

NoFile == [exists |-> FALSE, text |-> <<>>]
FileOf(us) == [exists |-> TRUE, text |-> FileText(us)]

\* An environment: the users.txt found at start-up, the words typed into
\* the fields of each screen (signUp, passwords and confirms into the three
\* fields of the sign-up screen), the number of characters a field may hold
\* when a word is typed into it, the words typed while no field is active
\* (stray), in the frame of a mouse press (pressTyped) and in the frame of
\* the Enter key (enterTyped), the letter counts of the active field at
\* which Backspace is pressed and the words typed in the frame of a
\* Backspace (eraseTyped), the frame times, and
\* whether users.txt can be opened for writing.
BidEnv ==
    [files |-> {FileOf(<<User(bobby, HashPassword(bobby))>>)},
     signIn |-> {bobby},
     signUp |-> {},
     passwords |-> {},
     confirms |-> {},
     amounts |-> {w1600, nan},
     names |-> {wa},
     prefix |-> MaxPrefix,
     stray |-> {},
     pressTyped |-> {},
     backspace |-> {},
     enterTyped |-> {},
     eraseTyped |-> {},
     times |-> {UI_MESSAGE_DURATION * TicksPerSecond},
     canWrite |-> {TRUE}]

\* "usr0", "usr1", ..: users whose password is their name and "pass"
SeedUser(i) ==
    User(<<117, 115, 114, 48 + i>>,
         HashPassword(<<117, 115, 114, 48 + i, 112, 97, 115, 115>>))
NineUsers ==
    [i \in 1..(MAX_USERS - 1) |->
        IF i = 1 THEN User(bobby, HashPassword(bobby)) ELSE SeedUser(i - 1)]

bobab == <<98, 111, 98, 97, 98>>                        \* "bobab"
bobbA == <<98, 111, 98, 98, 65>>                        \* "bobbA": the hash of "bobab"
Bobby == <<66, 111, 98, 98, 121>>                       \* "Bobby"
aSpaceB == <<97, 32, 98>>                               \* "a b"

\* the same with amounts at the bid ceiling and above it
CeilingEnv ==
    [BidEnv EXCEPT !.amounts = {w999999999, w1000000000, w1000000100}]

Centre(rec) == Vector2(rec.x + rec.width \div 2, rec.y + rec.height \div 2)

\* the places clicked on each screen: the middle of each of its boxes and
\* buttons, and a place off all of them
ScreenRects ==
    CASE currentScreen = "SCREEN_AUTH_MENU" -> {signInButton, signUpButton}
      [] currentScreen = "SCREEN_SIGN_IN" ->
            {signInUsernameRect, signInPasswordRect, loginButton,
             signInBackButton}
      [] currentScreen = "SCREEN_SIGN_UP" ->
            {signUpUsernameRect, signUpPasswordRect,
             signUpConfirmPasswordRect, registerButton, signUpBackButton}
      [] currentScreen = "SCREEN_ITEM_LIST" ->
            {itemRect(0), itemRect(1), itemRect(2), logoutButtonRect}
      [] currentScreen = "SCREEN_ITEM_DETAILS" ->
            {backButtonRect, placeBidButtonRect}
      [] currentScreen = "SCREEN_PLACE_BID" ->
            {bidAmountRect, bidderNameRect, bidButtonRect, cancelButtonRect}

ClickPoints == {Centre(r) : r \in ScreenRects} \cup {Vector2(0, 0)}

\* what one frame reads: the frame time, the mouse, the keyboard; and
\* whether fopen(USERS_FILE, "w") succeeds during the frame
Input(pressed, mouse, chars, backspace, enter, dt) ==
    [pressed |-> pressed, mouse |-> mouse, chars |-> chars,
     backspace |-> backspace, enter |-> enter, dt |-> dt, canWrite |-> TRUE]

NoInput == Input(FALSE, Vector2(0, 0), <<>>, FALSE, FALSE, 0)

\* a frame with a mouse press, a frame with typed characters, a frame with
\* the Enter key, a frame with the Backspace key, a frame with typed
\* characters and a press, the Enter key or the Backspace key
Inputs(E) ==
    {Input(TRUE, p, <<>>, FALSE, FALSE, dt) : p \in ClickPoints, dt \in E.times}
    \cup {Input(FALSE, Vector2(0, 0), w, FALSE, FALSE, dt) :
            w \in E.signIn \cup E.signUp \cup E.passwords \cup E.confirms
                    \cup E.amounts \cup E.names,
            dt \in E.times}
    \cup {Input(FALSE, Vector2(0, 0), <<>>, FALSE, TRUE, dt) : dt \in E.times}
    \cup {Input(FALSE, Vector2(0, 0), <<>>, TRUE, FALSE, dt) :
            n \in E.backspace, dt \in E.times}
    \cup {Input(FALSE, Vector2(0, 0), w, FALSE, FALSE, dt) :
            w \in E.stray, dt \in E.times}
    \cup {Input(TRUE, p, w, FALSE, FALSE, dt) :
            p \in ClickPoints, w \in E.pressTyped, dt \in E.times}
    \cup {Input(FALSE, Vector2(0, 0), w, FALSE, TRUE, dt) :
            w \in E.enterTyped, dt \in E.times}
    \cup {Input(FALSE, Vector2(0, 0), w, TRUE, FALSE, dt) :
            w \in E.eraseTyped, dt \in E.times}

\* the fields of the current screen, each with the words typed into it
Field(box, rect, words) == [box |-> box, rect |-> rect, words |-> words]

ScreenFields(E) ==
    CASE currentScreen = "SCREEN_SIGN_IN" ->
            {Field(signInUsernameInput, signInUsernameRect, E.signIn),
             Field(signInPasswordInput, signInPasswordRect, E.signIn)}
      [] currentScreen = "SCREEN_SIGN_UP" ->
            {Field(signUpUsernameInput, signUpUsernameRect, E.signUp),
             Field(signUpPasswordInput, signUpPasswordRect, E.passwords),
             Field(signUpConfirmPasswordInput, signUpConfirmPasswordRect,
                   E.confirms)}
      [] currentScreen = "SCREEN_PLACE_BID" ->
            {Field(bidAmountInput, bidAmountRect, E.amounts),
             Field(bidderNameInput, bidderNameRect, E.names)}
      [] OTHER -> {}

\* a word is typed into the field it is meant for, while the field holds at
\* most E.prefix characters; a stray word is typed while no field of the
\* screen is active; a word typed in the frame of a press goes with a press
\* on a field it is meant for or on no field; Backspace is pressed while the
\* active field holds one of the letter counts of E.backspace, alone or
\* after a word of E.eraseTyped typed in the same frame
Typed(E, in) ==
    \/ /\ in.chars = <<>>
       /\ in.backspace =>
             \E f \in ScreenFields(E) :
                 f.box.active /\ f.box.letterCount \in E.backspace
    \/ /\ ~in.pressed /\ ~in.backspace
       /\ \E f \in ScreenFields(E) :
             /\ f.box.active
             /\ f.box.letterCount <= E.prefix
             /\ in.chars \in f.words
    \/ /\ ~in.pressed /\ in.backspace
       /\ in.chars \in E.eraseTyped
       /\ \E f \in ScreenFields(E) :
             f.box.active /\ f.box.letterCount \in E.backspace
    \/ /\ ~in.pressed
       /\ in.chars \in E.stray
       /\ \A f \in ScreenFields(E) : ~f.box.active
    \/ /\ in.pressed
       /\ in.chars \in E.pressTyped
       /\ \A f \in ScreenFields(E) :
             CheckCollisionPointRec(in.mouse, f.rect) =>
                /\ in.chars \in f.words
                /\ f.box.letterCount <= E.prefix

\* ------------------------------------------------------------ actions
InitIn(E) ==
    /\ \E file \in E.files :
          LET g == StartFrom(file)
          IN  /\ items = g.items
              /\ itemCount = g.itemCount
              /\ selectedItemIndex = g.selectedItemIndex
              /\ currentScreen = g.currentScreen
              /\ users = g.users
              /\ loggedInUsername = g.loggedInUsername
              /\ bidAmountInput = g.bidAmountInput
              /\ bidderNameInput = g.bidderNameInput
              /\ signInUsernameInput = g.signInUsernameInput
              /\ signInPasswordInput = g.signInPasswordInput
              /\ signUpUsernameInput = g.signUpUsernameInput
              /\ signUpPasswordInput = g.signUpPasswordInput
              /\ signUpConfirmPasswordInput = g.signUpConfirmPasswordInput
              /\ uiMessage = g.uiMessage
              /\ uiMessageTimer = g.uiMessageTimer
              /\ sinceMessage = g.sinceMessage
              /\ usersFile = g.usersFile
    /\ lastCall = NoCall
    /\ lastInput = NoInput

\* one iteration of the main loop on each screen
AuthMenuFrame(E) ==
    /\ currentScreen = "SCREEN_AUTH_MENU"
    /\ \E in \in Inputs(E) :
          /\ Typed(E, in)
          /\ Becomes(UpdateAuthMenu(UpdateTimer(Globals, in), in))
          /\ lastInput' = in
    /\ lastCall' = NoCall

SignInFrame(E) ==
    /\ currentScreen = "SCREEN_SIGN_IN"
    /\ \E in \in Inputs(E) :
          /\ Typed(E, in)
          /\ Becomes(UpdateSignIn(UpdateTimer(Globals, in), in))
          /\ lastInput' = in
    /\ lastCall' = NoCall

SignUpFrame(E) ==
    /\ currentScreen = "SCREEN_SIGN_UP"
    /\ \E in \in Inputs(E), canWrite \in E.canWrite :
          /\ Typed(E, in)
          /\ Becomes(UpdateSignUp(UpdateTimer(Globals, in), in, canWrite))
          /\ lastInput' = [in EXCEPT !.canWrite = canWrite]
    /\ lastCall' = NoCall

ItemListFrame(E) ==
    /\ currentScreen = "SCREEN_ITEM_LIST"
    /\ \E in \in Inputs(E) :
          /\ Typed(E, in)
          /\ Becomes(UpdateItemList(UpdateTimer(Globals, in), in))
          /\ lastInput' = in
    /\ lastCall' = NoCall

ItemDetailsFrame(E) ==
    /\ currentScreen = "SCREEN_ITEM_DETAILS"
    /\ \E in \in Inputs(E) :
          /\ Typed(E, in)
          /\ Becomes(UpdateItemDetails(UpdateTimer(Globals, in), in))
          /\ lastInput' = in
    /\ lastCall' = NoCall

PlaceBidFrame(E) ==
    /\ currentScreen = "SCREEN_PLACE_BID"
    /\ \E in \in Inputs(E) :
          /\ Typed(E, in)
          /\ Becomes(UpdatePlaceBid(UpdateTimer(Globals, in), in))
          /\ lastInput' = in
    /\ lastCall' = NoCall

NextIn(E) ==
    \/ AuthMenuFrame(E)
    \/ SignInFrame(E)
    \/ SignUpFrame(E)
    \/ ItemListFrame(E)
    \/ ItemDetailsFrame(E)
    \/ PlaceBidFrame(E)

\* the application under the bidding environment
Init == InitIn(BidEnv)
Next == NextIn(BidEnv)
Spec == Init /\ [][Next]_vars

\* the application under the environment of bids at the ceiling
InitCeiling == InitIn(CeilingEnv)
NextCeiling == NextIn(CeilingEnv)
SpecCeiling == InitCeiling /\ [][NextCeiling]_vars

\* the application under an environment of sign-ups: start-up without
\* users.txt or with a full one, short, taken and new usernames, matching
\* and differing confirmations, and a users.txt that may not open for writing
ab == <<97, 98>>                                        \* "ab"
TenUsers == [i \in 1..MAX_USERS |-> SeedUser(i - 1)]

AuthEnv ==
    [files |-> {NoFile, FileOf(TenUsers)},
     signIn |-> {bobby},
     signUp |-> {bobby, ab},
     passwords |-> {bobby},
     confirms |-> {bobby, bobab},
     amounts |-> {},
     names |-> {},
     prefix |-> MaxPrefix,
     stray |-> {},
     pressTyped |-> {},
     backspace |-> {},
     enterTyped |-> {},
     eraseTyped |-> {},
     times |-> {UI_MESSAGE_DURATION * TicksPerSecond},
     canWrite |-> BOOLEAN]

InitSignUp == InitIn(AuthEnv)
NextSignUp == NextIn(AuthEnv)
SpecSignUp == InitSignUp /\ [][NextSignUp]_vars

\* the application under an environment of typing: a word of seven letters
\* and a word of characters outside 32..125, typed into the fields of the
\* sign-in screen however full they are, without a focus, and in the frame
\* of a press; Backspace in an empty and in a full field
a7 == <<97, 97, 97, 97, 97, 97, 97>>                     \* "aaaaaaa"
junk == <<31, 126, 200>>

TypingEnv ==
    [files |-> {FileOf(<<User(a7, HashPassword(a7))>>)},
     signIn |-> {a7, junk},
     signUp |-> {},
     passwords |-> {},
     confirms |-> {},
     amounts |-> {},
     names |-> {},
     prefix |-> MAX_INPUT_CHARS,
     stray |-> {a7},
     pressTyped |-> {a7},
     backspace |-> {0, MAX_INPUT_CHARS},
     enterTyped |-> {a7},
     eraseTyped |-> {},
     times |-> {UI_MESSAGE_DURATION * TicksPerSecond},
     canWrite |-> {TRUE}]

InitTyping == InitIn(TypingEnv)
NextTyping == NextIn(TypingEnv)
SpecTyping == InitTyping /\ [][NextTyping]_vars

\* the application under an environment of frame times: a frame of just
\* under half a second (2^24 - 1 ticks), of one second, of two and a half
\* seconds and of the full duration of a message
TimerEnv ==
    [BidEnv EXCEPT
        !.amounts = {},
        !.names = {},
        !.times = {2^24 - 1, TicksPerSecond, 5 * 2^24,
                   UI_MESSAGE_DURATION * TicksPerSecond}]

InitTimer == InitIn(TimerEnv)
NextTimer == NextIn(TimerEnv)
SpecTimer == InitTimer /\ [][NextTimer]_vars

\* the application under an environment of erasing: "bobby" and "ab" typed
\* into the empty fields of the sign-in screen, Backspace in a field of 0, 2
\* and 5 characters, alone and after a "c" typed in the same frame
wc == <<99>>                                            \* "c"

EraseEnv ==
    [BidEnv EXCEPT
        !.signIn = {bobby, ab},
        !.amounts = {},
        !.names = {},
        !.prefix = 0,
        !.backspace = {0, 2, 5},
        !.eraseTyped = {wc}]

InitErase == InitIn(EraseEnv)
NextErase == NextIn(EraseEnv)
SpecErase == InitErase /\ [][NextErase]_vars

\* ------------------------------------------------------------ store calls
\* The functions of the credential store called with arguments of the
\* caller's choice, from the state left by start-up and earlier calls.
StoreFiles == {NoFile, FileOf(NineUsers)}
StoreNames == {bobby, Bobby, aSpaceB}
NewPasswords == {bobab, bobby}
StorePasswords == NewPasswords \cup {bobbA}

Call(op, username, password, ret) ==
    [op |-> op, username |-> username, password |-> password, ret |-> ret]

CallRegisterUser ==
    \E username \in StoreNames, password \in NewPasswords, canWrite \in BOOLEAN :
        LET r == RegisterUser(Globals, username, password, canWrite)
        IN  /\ Becomes(r.g)
            /\ lastCall' = Call("RegisterUser", username, password, r.ret)
            /\ lastInput' = NoInput

CallAuthenticateUser ==
    \E username \in StoreNames, password \in StorePasswords :
        /\ Becomes(Globals)
        /\ lastCall' = Call("AuthenticateUser", username, password,
                            AuthenticateUser(Globals, username, password))
        /\ lastInput' = NoInput

\* the Register handler run with the sign-up fields holding what was typed
\* into them
CallRegisterHandler ==
    \E username \in StoreNames, password \in {bobab},
       confirm \in {bobab}, canWrite \in BOOLEAN :
        LET g0 == [Globals EXCEPT
                      !.currentScreen = "SCREEN_SIGN_UP",
                      !.signUpUsernameInput = TypeKeys(NewInputBox, username),
                      !.signUpPasswordInput = TypeKeys(NewInputBox, password),
                      !.signUpConfirmPasswordInput = TypeKeys(NewInputBox, confirm)]
            g1 == RegisterHandler(g0, canWrite)
        IN  /\ Becomes(g1)
            /\ lastCall' = Call("RegisterHandler", CStr(g0.signUpUsernameInput.text),
                                CStr(g0.signUpPasswordInput.text),
                                g1.currentScreen = "SCREEN_SIGN_IN")
            /\ lastInput' = NoInput

InitStore ==
    /\ \E file \in StoreFiles :
          LET g == StartFrom(file)
          IN  /\ items = g.items
              /\ itemCount = g.itemCount
              /\ selectedItemIndex = g.selectedItemIndex
              /\ currentScreen = g.currentScreen
              /\ users = g.users
              /\ loggedInUsername = g.loggedInUsername
              /\ bidAmountInput = g.bidAmountInput
              /\ bidderNameInput = g.bidderNameInput
              /\ signInUsernameInput = g.signInUsernameInput
              /\ signInPasswordInput = g.signInPasswordInput
              /\ signUpUsernameInput = g.signUpUsernameInput
              /\ signUpPasswordInput = g.signUpPasswordInput
              /\ signUpConfirmPasswordInput = g.signUpConfirmPasswordInput
              /\ uiMessage = g.uiMessage
              /\ uiMessageTimer = g.uiMessageTimer
              /\ sinceMessage = g.sinceMessage
              /\ usersFile = g.usersFile
    /\ lastCall = NoCall
    /\ lastInput = NoInput

\* HashPassword called on the passwords of at most MaxHashLen characters
\* made of the least and the greatest character a field takes and a letter,
\* and on "bobby"
HashChars == {32, 97, 125}
HashWords == UNION {[1..n -> HashChars] : n \in 0..MaxHashLen} \cup {bobby}

CallHashPassword ==
    \E password \in HashWords :
        /\ Becomes(Globals)
        /\ lastCall' = Call("HashPassword", <<>>, password, HashPassword(password))
        /\ lastInput' = NoInput

NextHash == CallHashPassword

SpecHash == InitStore /\ [][NextHash]_vars

NextStore == CallRegisterUser \/ CallAuthenticateUser \/ CallRegisterHandler

SpecStore == InitStore /\ [][NextStore]_vars

\* ------------------------------------------------------------ bidding
\* the step is a frame of the PlaceBid screen with a press on "BID!"
BidClick ==
    /\ currentScreen = "SCREEN_PLACE_BID"
    /\ lastInput' # lastInput \/ items' # items \/ uiMessageTimer' # uiMessageTimer
    /\ lastInput'.pressed
    /\ CheckCollisionPointRec(lastInput'.mouse, bidButtonRect)

\* the state follows a frame with a press on "BID!"
AfterBidClick ==
    /\ lastInput.pressed
    /\ CheckCollisionPointRec(lastInput.mouse, bidButtonRect)
    /\ currentScreen \in {"SCREEN_PLACE_BID", "SCREEN_ITEM_DETAILS"}
    /\ selectedItemIndex # -1

\* a < b of IEEE 754
FLt(a, b) == FGt(b, a)

\* the amount a field shows, as the decimal number its digits write; the
\* field holds digits only
IsAmount(s) == s # <<>> /\ DigitPrefix(s) = s
EnteredAmount(s) == DecValue(0, s)

\* C1: the current bid of an item never decreases: it is never below a bid
\* the item had before, so never below the bid it started with.
C1_CurrentBidNeverDecreases ==
    \A i \in 0..(itemCount - 1) :
        ~FLt(items[i].currentBid, SeedItems[i].currentBid)

\* C2: while the PlaceBid screen is active the selected item is an item of
\* the catalog that is not closed, and a closed item keeps the bid and the
\* bidder it started with.
C2_NoBidOnClosedItem ==
    /\ currentScreen = "SCREEN_PLACE_BID" =>
          /\ selectedItemIndex \in 0..(itemCount - 1)
          /\ ~items[selectedItemIndex].auctionClosed
    /\ \A i \in 0..(itemCount - 1) :
          SeedItems[i].auctionClosed =>
             /\ items[i].auctionClosed
             /\ items[i].currentBid = SeedItems[i].currentBid
             /\ items[i].highestBidder = SeedItems[i].highestBidder

\* PlaceBid is active after a bid was accepted on an open item
C2_Witness ==
    /\ currentScreen = "SCREEN_PLACE_BID"
    /\ \E i \in 0..(itemCount - 1) : items[i] # SeedItems[i]

\* C3: a press on "BID!" with a bidder name and an amount: an amount at or
\* below the current bid leaves the items and the screen as they are; an
\* amount above it and at most 999,999,999 becomes the current bid, exactly,
\* the name becomes the highest bidder, and the screen becomes ItemDetails
\* with the same item selected.
C3_BidAcceptedExactlyOrRejected ==
    [][(/\ BidClick
        /\ CStr(bidderNameInput'.text) # <<>>
        /\ IsAmount(CStr(bidAmountInput'.text))
        /\ items[selectedItemIndex].currentBid.k = "num") =>
          LET amount == EnteredAmount(CStr(bidAmountInput'.text))
              cur == items[selectedItemIndex].currentBid.v
          IN  /\ amount <= cur =>
                    items' = items /\ currentScreen' = "SCREEN_PLACE_BID"
              /\ (amount > cur /\ amount <= 999999999) =>
                    /\ items'[selectedItemIndex].currentBid = F(amount)
                    /\ items'[selectedItemIndex].highestBidder =
                          CStr(bidderNameInput'.text)
                    /\ currentScreen' = "SCREEN_ITEM_DETAILS"
                    /\ selectedItemIndex' = selectedItemIndex]_vars

\* C4: a press on "BID!" while the bidder name field is empty leaves the
\* items and the screen as they are, whatever the amount, and the message is
\* the one asking for the name.
C4_EmptyNameRejected ==
    [][(BidClick /\ CStr(bidderNameInput'.text) = <<>>) =>
          /\ items' = items
          /\ currentScreen' = "SCREEN_PLACE_BID"
          /\ selectedItemIndex' = selectedItemIndex
          /\ uiMessage' = "Please enter your name to bid."]_vars

\* "BID!" was pressed with no name and an amount above the current bid
C4_Witness ==
    /\ AfterBidClick
    /\ currentScreen = "SCREEN_PLACE_BID"
    /\ CStr(bidderNameInput.text) = <<>>
    /\ uiMessage = "Please enter your name to bid."
    /\ FGt(StrToF(CStr(bidAmountInput.text)), items[selectedItemIndex].currentBid)

\* C5: a press on "BID!" with an amount above 999,999,999 leaves the items
\* and the screen as they are.
C5_AboveCeilingRejected ==
    [][(/\ BidClick
        /\ IsAmount(CStr(bidAmountInput'.text))
        /\ EnteredAmount(CStr(bidAmountInput'.text)) > 999999999) =>
          items' = items /\ currentScreen' = "SCREEN_PLACE_BID"]_vars


\* ------------------------------------------------------------ store claims
\* the user, if any, stored under a name
Stored(us, username) == \E i \in 1..Len(us) : us[i].username = username

\* C6 as stated: for any username u not in the store with at least 3
\* characters and any password p with at least 5, after RegisterUser(u, p)
\* the call AuthenticateUser(u, p) returns true.
C6_RegisterThenAuthenticate ==
    [][(/\ lastCall'.op = "RegisterUser"
        /\ ~Stored(users, lastCall'.username)
        /\ Len(lastCall'.username) >= 3
        /\ Len(lastCall'.password) >= 5)
       => AuthenticateUser(Globals', lastCall'.username, lastCall'.password)]_vars

\* C6, amended: for any username u not in the store with at least 3
\* characters and any password p with at least 5, when the store holds fewer
\* than MAX_USERS users, after RegisterUser(u, p) the call
\* AuthenticateUser(u, p) returns true (whether or not the file was written).
C6_RegisterBelowCapacityThenAuthenticate ==
    [][(/\ lastCall'.op = "RegisterUser"
        /\ ~Stored(users, lastCall'.username)
        /\ Len(lastCall'.username) >= 3
        /\ Len(lastCall'.password) >= 5
        /\ Len(users) < MAX_USERS)
       => AuthenticateUser(Globals', lastCall'.username, lastCall'.password)]_vars

\* a registration whose save failed, of a user who can be authenticated
C6_Witness ==
    /\ lastCall.op = "RegisterUser"
    /\ ~lastCall.ret
    /\ Len(users) >= 2
    /\ users[Len(users)] = User(lastCall.username, HashPassword(lastCall.password))
    /\ ~Stored(SubSeq(users, 1, Len(users) - 1), lastCall.username)
    /\ AuthenticateUser(Globals, lastCall.username, lastCall.password)

\* C7: AuthenticateUser(u, p) returns true if and only if some stored user
\* has username exactly u and hashedPassword equal to HashPassword(p).
C7_AuthenticateIffStoredPair ==
    lastCall.op = "AuthenticateUser" =>
        (lastCall.ret <=>
            \E i \in 1..Len(users) :
                /\ users[i].username = lastCall.username
                /\ users[i].hashedPassword = HashPassword(lastCall.password))

\* a refused authentication although the name is stored, the hash is stored
\* with another name, and a name differing only by case has that hash
C7_Witness ==
    /\ lastCall.op = "AuthenticateUser"
    /\ ~lastCall.ret
    /\ lastCall.username = bobby
    /\ Stored(users, bobby)
    /\ \E i \in 1..Len(users) :
          /\ users[i].username = Bobby
          /\ users[i].hashedPassword = HashPassword(lastCall.password)

\* C8: RegisterUser(u, p) fails, leaving the users and the file unchanged,
\* when the store holds MAX_USERS users or u is stored; otherwise it appends
\* exactly the user (u, HashPassword(p)), and when it then returns true the
\* file lists exactly the users in memory, in order.
C8_RegisterUserContract ==
    [][lastCall'.op = "RegisterUser" =>
          IF Len(users) >= MAX_USERS \/ Stored(users, lastCall'.username)
          THEN /\ ~lastCall'.ret
               /\ users' = users
               /\ usersFile' = usersFile
          ELSE /\ users' = Append(users, User(lastCall'.username,
                                              HashPassword(lastCall'.password)))
               /\ lastCall'.ret =>
                     /\ usersFile'.exists
                     /\ usersFile'.text = FileText(users')]_vars

\* a registration that filled the last place of the store and was saved
C8_Witness ==
    /\ lastCall.op = "RegisterUser"
    /\ lastCall.ret
    /\ Len(users) = MAX_USERS
    /\ users[MAX_USERS].username = lastCall.username
    /\ usersFile.text = FileText(users)

\* C9: from a store of pairwise distinct usernames, after any sequence of
\* sign-up attempts and RegisterUser calls the stored usernames are pairwise
\* distinct.
C9_UsernamesDistinct ==
    \A i, j \in 1..Len(users) : i # j => users[i].username # users[j].username

\* a sign-up attempt or RegisterUser call refused for a stored name while
\* the store had room
C9_Witness ==
    /\ lastCall.op \in {"RegisterUser", "RegisterHandler"}
    /\ ~lastCall.ret
    /\ Len(users) >= 2
    /\ Len(users) < MAX_USERS
    /\ Stored(users, lastCall.username)
    /\ users[Len(users)].username # lastCall.username

\* C10: for every store left by a sign-up, SaveUsers followed by LoadUsers
\* yields the same sequence of (username, hash) pairs and the same userCount.
C10_SaveLoadRoundTrip ==
    (lastCall.op = "RegisterHandler" /\ lastCall.ret) =>
        LET loaded == LoadUsers(SaveUsers(Globals, TRUE).g).g
        IN  /\ loaded.users = users
            /\ Len(loaded.users) = userCount


\* ------------------------------------------------------------ sign-up claims
\* a frame of the sign-up screen with a click on Register, and the state
\* such a frame leaves
RegisterClick ==
    /\ currentScreen = "SCREEN_SIGN_UP"
    /\ lastInput'.pressed
    /\ CheckCollisionPointRec(lastInput'.mouse, registerButton)
AfterRegisterClick ==
    /\ lastInput.pressed
    /\ CheckCollisionPointRec(lastInput.mouse, registerButton)
    /\ currentScreen \in {"SCREEN_SIGN_UP", "SCREEN_SIGN_IN"}

\* what the three fields of the sign-up screen show
SignUpName == CStr(signUpUsernameInput.text)
SignUpPassword == CStr(signUpPasswordInput.text)
SignUpConfirm == CStr(signUpConfirmPasswordInput.text)

TooShort == Len(SignUpName) < 3 \/ Len(SignUpPassword) < 5
Mismatch == SignUpPassword # SignUpConfirm
Taken == Stored(users, SignUpName)

\* C11: when users.txt cannot be opened for writing during a registration
\* (Register clicked with valid, matching, unused credentials), RegisterUser
\* returns false, the screen stays SignUp with the message "Registration
\* failed. Try again.", and users.txt keeps its previous content.
C11_WriteFailureKeepsFile ==
    [][(RegisterClick /\ ~TooShort /\ ~Mismatch /\ ~Taken
          /\ ~lastInput'.canWrite)
       => /\ ~RegisterUser(Globals, SignUpName, SignUpPassword, FALSE).ret
          /\ currentScreen' = "SCREEN_SIGN_UP"
          /\ uiMessage' = "Registration failed. Try again."
          /\ usersFile' = usersFile]_vars

\* a registration below capacity whose save failed: no users.txt before, none
\* after
C11_Witness ==
    /\ AfterRegisterClick
    /\ ~lastInput.canWrite
    /\ currentScreen = "SCREEN_SIGN_UP"
    /\ uiMessage = "Registration failed. Try again."
    /\ Len(users) = 1
    /\ users[1] = User(SignUpName, HashPassword(SignUpPassword))
    /\ ~usersFile.exists


\* C12: when Register is clicked with valid, matching, unused credentials
\* while the store holds MAX_USERS users, the registration is rejected, the
\* store is unchanged, and the message at the end of the frame is the
\* capacity message, not a generic failure message.
C12_CapacityMessageShown ==
    [][(RegisterClick /\ ~TooShort /\ ~Mismatch /\ ~Taken
          /\ Len(users) >= MAX_USERS)
       => /\ currentScreen' = "SCREEN_SIGN_UP"
          /\ users' = users
          /\ usersFile' = usersFile
          /\ uiMessage' = "Cannot register: maximum user limit reached."]_vars


\* ------------------------------------------------------------ screen claims
\* the edges of the screen table
ScreenEdges ==
    {<<"SCREEN_AUTH_MENU", "SCREEN_SIGN_IN">>,
     <<"SCREEN_AUTH_MENU", "SCREEN_SIGN_UP">>,
     <<"SCREEN_SIGN_IN", "SCREEN_ITEM_LIST">>,
     <<"SCREEN_SIGN_IN", "SCREEN_AUTH_MENU">>,
     <<"SCREEN_SIGN_UP", "SCREEN_SIGN_IN">>,
     <<"SCREEN_SIGN_UP", "SCREEN_AUTH_MENU">>,
     <<"SCREEN_ITEM_LIST", "SCREEN_ITEM_DETAILS">>,
     <<"SCREEN_ITEM_LIST", "SCREEN_AUTH_MENU">>,
     <<"SCREEN_ITEM_DETAILS", "SCREEN_ITEM_LIST">>,
     <<"SCREEN_ITEM_DETAILS", "SCREEN_PLACE_BID">>,
     <<"SCREEN_PLACE_BID", "SCREEN_ITEM_DETAILS">>}

\* some stored user has this name and the hash of this password
StoredPair(us, username, password) ==
    \E i \in 1..Len(us) :
        /\ us[i].username = username
        /\ us[i].hashedPassword = HashPassword(password)

\* C13: the screen starts at AuthMenu, and every change of screen in one
\* frame is an edge of the table; SignIn -> ItemList happens only when the
\* typed credentials authenticate, SignUp -> SignIn only when the
\* registration succeeded (the new user is stored and users.txt written).
C13_ScreenEdges ==
    /\ currentScreen = "SCREEN_AUTH_MENU"
    /\ [][/\ currentScreen' # currentScreen =>
                <<currentScreen, currentScreen'>> \in ScreenEdges
          /\ (currentScreen = "SCREEN_SIGN_IN"
                /\ currentScreen' = "SCREEN_ITEM_LIST") =>
                StoredPair(users, CStr(signInUsernameInput.text),
                           CStr(signInPasswordInput.text))
          /\ (currentScreen = "SCREEN_SIGN_UP"
                /\ currentScreen' = "SCREEN_SIGN_IN") =>
                /\ ~TooShort /\ ~Mismatch /\ ~Taken
                /\ lastInput'.canWrite
                /\ users' = Append(users, User(SignUpName,
                                               HashPassword(SignUpPassword)))
                /\ usersFile' = FileOf(users')]_vars

\* a sign-up, a sign-in as the new user and the way through the catalogue
\* to PlaceBid and back have happened
C13_Witness ==
    /\ currentScreen = "SCREEN_ITEM_DETAILS"
    /\ lastInput.pressed
    /\ CheckCollisionPointRec(lastInput.mouse, cancelButtonRect)
    /\ usersFile = FileOf(<<User(bobby, HashPassword(bobby))>>)
    /\ loggedInUsername = bobby


\* the screens before and after authentication
AuthScreens == {"SCREEN_AUTH_MENU", "SCREEN_SIGN_IN", "SCREEN_SIGN_UP"}
SessionScreens == {"SCREEN_ITEM_LIST", "SCREEN_ITEM_DETAILS", "SCREEN_PLACE_BID"}

SessionMatchesScreen ==
    /\ currentScreen \in AuthScreens => loggedInUsername = <<>>
    /\ currentScreen \in SessionScreens =>
          /\ loggedInUsername # <<>>
          /\ Stored(users, loggedInUsername)

\* C14: on the screens AuthMenu, SignIn and SignUp the session username is
\* empty; on ItemList, ItemDetails and PlaceBid it is non-empty and the name
\* of a stored user; the session is set only by a Login whose typed name and
\* password authenticate, which is also the only way into ItemList from
\* the screens without session; a click on Logout empties the session.
C14_SessionMatchesScreen ==
    /\ SessionMatchesScreen
    /\ [][/\ SessionMatchesScreen'
          /\ (loggedInUsername' # loggedInUsername /\ loggedInUsername' # <<>>) =>
                /\ currentScreen = "SCREEN_SIGN_IN"
                /\ loggedInUsername' = CStr(signInUsernameInput.text)
                /\ StoredPair(users, loggedInUsername',
                              CStr(signInPasswordInput.text))
          /\ (currentScreen \in AuthScreens /\ currentScreen' \in SessionScreens) =>
                /\ currentScreen' = "SCREEN_ITEM_LIST"
                /\ loggedInUsername' # <<>>
                /\ StoredPair(users, loggedInUsername',
                              CStr(signInPasswordInput.text))
          /\ (currentScreen = "SCREEN_ITEM_LIST" /\ lastInput'.pressed
                /\ CheckCollisionPointRec(lastInput'.mouse, logoutButtonRect)) =>
                /\ loggedInUsername' = <<>>
                /\ currentScreen' = "SCREEN_AUTH_MENU"]_vars

\* logged out, after a session as a user who signed up in this run
C14_Witness ==
    /\ currentScreen = "SCREEN_AUTH_MENU"
    /\ lastInput.pressed
    /\ CheckCollisionPointRec(lastInput.mouse, logoutButtonRect)
    /\ uiMessage = "Logged out successfully."
    /\ loggedInUsername = <<>>
    /\ users = <<User(bobby, HashPassword(bobby))>>


\* C15: on a Register click the guards are tried in the order (1) username
\* shorter than 3 or password shorter than 5, (2) password differs from the
\* confirmation, (3) username stored; when one fires the screen stays SignUp,
\* no user is added, and the message is that of the first guard that fires.
C15_RegisterGuardOrder ==
    [][(RegisterClick /\ (TooShort \/ Mismatch \/ Taken))
       => /\ currentScreen' = "SCREEN_SIGN_UP"
          /\ users' = users
          /\ usersFile' = usersFile
          /\ uiMessage' =
                IF TooShort
                THEN "Username (min 3 chars) / Password (min 5 chars) too short."
                ELSE IF Mismatch THEN "Passwords do not match!"
                ELSE "Username already taken."]_vars

\* a stored username with a differing confirmation: the second guard fired
C15_Witness ==
    /\ AfterRegisterClick
    /\ currentScreen = "SCREEN_SIGN_UP"
    /\ ~TooShort
    /\ Mismatch
    /\ Taken
    /\ uiMessage = "Passwords do not match!"


\* ------------------------------------------------------------ field claims
\* a frame of the sign-in screen with a click on Login
LoginClick ==
    /\ currentScreen = "SCREEN_SIGN_IN"
    /\ lastInput'.pressed
    /\ CheckCollisionPointRec(lastInput'.mouse, loginButton)

\* the seven input fields
Boxes ==
    <<bidAmountInput, bidderNameInput, signInUsernameInput,
      signInPasswordInput, signUpUsernameInput, signUpPasswordInput,
      signUpConfirmPasswordInput>>

\* a field's buffer and letter count
Content(box) == [text |-> box.text, letterCount |-> box.letterCount]

\* a Login, Register or Bid click refused by a validation
RejectedClick ==
    \/ /\ LoginClick
       /\ ~StoredPair(users, CStr(signInUsernameInput.text),
                      CStr(signInPasswordInput.text))
    \/ /\ RegisterClick
       /\ TooShort \/ Mismatch \/ Taken
    \/ /\ BidClick
       /\ \/ CStr(bidderNameInput.text) = <<>>
          \/ uiMessage' \in
                {"Bid failed: $%.2f is not higher than current bid $%.2f",
                 "Bid amount too large!"}

OwnedBoxes(screen) ==
    CASE screen = "SCREEN_PLACE_BID" -> {1, 2}
      [] screen = "SCREEN_SIGN_IN" -> {3, 4}
      [] screen = "SCREEN_SIGN_UP" -> {5, 6, 7}
      [] OTHER -> {}

\* the field shows no text, counts no letters and is not focused
Cleared(box) ==
    /\ CStr(box.text) = <<>>
    /\ box.letterCount = 0
    /\ ~box.active

\* C17: right after every change of screen into SignIn, SignUp or PlaceBid
\* every input field of the entered screen has empty text, letter count 0
\* and is inactive.
C17_FieldsClearedOnEntry ==
    [][currentScreen' # currentScreen
       => \A k \in OwnedBoxes(currentScreen') : Cleared(Boxes'[k])]_vars

\* PlaceBid entered again after "1600" had been typed as amount: the field
\* shows nothing, the rest of the old text is still in its buffer
C17_Witness ==
    /\ currentScreen = "SCREEN_PLACE_BID"
    /\ lastInput.pressed
    /\ CheckCollisionPointRec(lastInput.mouse, placeBidButtonRect)
    /\ Cleared(bidAmountInput)
    /\ Cleared(bidderNameInput)
    /\ bidAmountInput.text[1] = w1600[2]


\* C18: right after every change of screen out of SignIn, SignUp or PlaceBid
\* (Back, successful Login, successful Register, successful Bid, Cancel)
\* every input field of the screen that was left has empty text and is
\* inactive.
C18_FieldsClearedOnExit ==
    [][currentScreen' # currentScreen
       => \A k \in OwnedBoxes(currentScreen) :
             /\ CStr(Boxes'[k].text) = <<>>
             /\ ~Boxes'[k].active]_vars


\* the input fields that are active (positions in Boxes)
ActiveBoxes == {k \in 1..Len(Boxes) : Boxes[k].active}

\* the rectangles of the seven input fields, in the order of Boxes
BoxRects ==
    <<bidAmountRect, bidderNameRect, signInUsernameRect, signInPasswordRect,
      signUpUsernameRect, signUpPasswordRect, signUpConfirmPasswordRect>>

\* no point lies in both rectangles
Apart(r, q) ==
    \/ r.x + r.width <= q.x
    \/ q.x + q.width <= r.x
    \/ r.y + r.height <= q.y
    \/ q.y + q.height <= r.y

\* C19: the rectangles of the fields of one screen do not overlap; at most
\* one of the seven input fields is active, and an active field belongs to
\* the current screen.
C19_AtMostOneActive ==
    /\ \A j, k \in OwnedBoxes(currentScreen) :
          j # k => Apart(BoxRects[j], BoxRects[k])
    /\ Cardinality(ActiveBoxes) <= 1
    /\ ActiveBoxes \subseteq OwnedBoxes(currentScreen)

\* the confirmation field is active after the username field had been (a
\* name was typed into it)
C19_Witness ==
    /\ currentScreen = "SCREEN_SIGN_UP"
    /\ ActiveBoxes = {7}
    /\ CStr(signUpUsernameInput.text) = bobby
    /\ CStr(signUpPasswordInput.text) = bobby


\* the field is one of the current screen and has the focus once the frame
\* has looked at the mouse
ActiveInFrame(k) ==
    /\ k \in OwnedBoxes(currentScreen)
    /\ IF lastInput'.pressed
       THEN CheckCollisionPointRec(lastInput'.mouse, BoxRects[k])
       ELSE Boxes[k].active

Printable(c) == c >= 32 /\ c <= 125

\* the typed characters a field takes: the printable ones, as many as it
\* has room for
Taken20(k) ==
    LET printable == SelectSeq(lastInput'.chars, Printable)
        room == MAX_INPUT_CHARS - Boxes[k].letterCount
    IN  SubSeq(printable, 1, IF Len(printable) < room THEN Len(printable) ELSE room)

LetterCountsInRange ==
    \A k \in 1..Len(Boxes) :
        Boxes[k].letterCount >= 0 /\ Boxes[k].letterCount <= MAX_INPUT_CHARS

\* C20: in every frame that types characters, a field that is not active in
\* the frame keeps its text; an active field appends the typed characters
\* with code in 32..125, in order, up to a letter count of 20, and drops the
\* others; the letter count is always in 0..20.  (Frames that change the
\* screen reset the fields and are not looked at.)
C20_TypingAppendsPrintable ==
    /\ LetterCountsInRange
    /\ [][/\ LetterCountsInRange'
          /\ (lastInput'.chars # <<>> /\ currentScreen' = currentScreen) =>
                \A k \in 1..Len(Boxes) :
                    IF ActiveInFrame(k)
                    THEN /\ Boxes'[k].letterCount =
                               Boxes[k].letterCount + Len(Taken20(k))
                         /\ \A i \in 0..MAX_INPUT_CHARS :
                               Boxes'[k].text[i] =
                                  IF /\ i >= Boxes[k].letterCount
                                     /\ i < Boxes'[k].letterCount
                                  THEN Taken20(k)[i - Boxes[k].letterCount + 1]
                                  ELSE Boxes[k].text[i]
                    ELSE Content(Boxes'[k]) = Content(Boxes[k])]_vars

\* seven letters typed into a field that had room for fewer: it is full
C20_Witness ==
    /\ currentScreen = "SCREEN_SIGN_IN"
    /\ lastInput.chars = a7
    /\ signInPasswordInput.active
    /\ signInPasswordInput.letterCount = MAX_INPUT_CHARS
    /\ Len(CStr(signInPasswordInput.text)) = MAX_INPUT_CHARS
    /\ signInUsernameInput.letterCount = Len(a7)


\* ------------------------------------------------------------ the store grows only
\* C21: the credential store is append-only and bounded: userCount never
\* decreases and never exceeds MAX_USERS, and a user stored at an index
\* stays at that index with the same username and hash in every later state.
C21_StoreAppendOnly ==
    /\ userCount <= MAX_USERS
    /\ [][/\ userCount' >= userCount
          /\ userCount' <= MAX_USERS
          /\ \A i \in 1..userCount : users'[i] = users[i]]_vars

\* the store is full after a registration that added its tenth user
C21_Witness ==
    /\ lastCall.op = "RegisterUser"
    /\ lastCall.ret
    /\ userCount = MAX_USERS
    /\ users[MAX_USERS].username = lastCall.username


\* ------------------------------------------------------------ the catalog
\* what InitAuctionData fixes of item i for good
Fixed(its, i) == <<its[i].name, its[i].description, its[i].auctionClosed>>

\* what a bid may change of item i
Bidding(its, i) == <<its[i].currentBid, its[i].highestBidder>>

\* the step is a frame of PlaceBid whose press on "BID!" is accepted
AcceptedBid ==
    /\ BidClick
    /\ uiMessage' = "Bid of $%.2f placed successfully by %s!"
    /\ currentScreen' = "SCREEN_ITEM_DETAILS"

\* C22: the catalog has exactly 3 items in every state; no item's name,
\* description or auctionClosed flag ever changes; an item's currentBid or
\* highestBidder changes only in a frame of PlaceBid where "BID!" is clicked
\* and the bid accepted, and then only for the selected item.
C22_CatalogChangesOnlyByBid ==
    /\ itemCount = 3 /\ DOMAIN items = 0..2
    /\ [][/\ itemCount' = 3 /\ DOMAIN items' = 0..2
          /\ \A i \in 0..2 : Fixed(items', i) = Fixed(items, i)
          /\ \A i \in 0..2 :
                Bidding(items', i) # Bidding(items, i) =>
                    /\ AcceptedBid
                    /\ i = selectedItemIndex
                    /\ selectedItemIndex' = selectedItemIndex]_vars

\* the accepted bid of 1600 by "a" is on the first item, the others are as
\* seeded
C22_Witness ==
    /\ AfterBidClick
    /\ selectedItemIndex = 0
    /\ items[0].currentBid = F(1600)
    /\ items[0].highestBidder = wa
    /\ Fixed(items, 0) = Fixed(SeedItems, 0)
    /\ items[1] = SeedItems[1]
    /\ items[2] = SeedItems[2]


\* ------------------------------------------------------------ the selected item
\* the drawing of SCREEN_ITEM_DETAILS takes its "No item selected" branch
NoItemSelectedDrawn ==
    currentScreen = "SCREEN_ITEM_DETAILS" /\ selectedItemIndex = -1

\* C23: in every reachable state the selected item index is a valid catalog
\* index (0 <= index < itemCount) when the screen is ItemDetails or PlaceBid
\* and is -1 when the screen is AuthMenu, SignIn, SignUp or ItemList; hence
\* the "No item selected" branch of the ItemDetails drawing is unreachable.
\* (No item row shares a point with the Logout button, so a press never
\* selects an item and logs out at once.)
C23_SelectionMatchesScreen ==
    /\ currentScreen \in {"SCREEN_ITEM_DETAILS", "SCREEN_PLACE_BID"} =>
          selectedItemIndex \in 0..(itemCount - 1)
    /\ currentScreen \in {"SCREEN_AUTH_MENU", "SCREEN_SIGN_IN",
                          "SCREEN_SIGN_UP", "SCREEN_ITEM_LIST"} =>
          selectedItemIndex = -1
    /\ ~NoItemSelectedDrawn
    /\ \A i \in 0..(itemCount - 1) : Apart(itemRect(i), logoutButtonRect)

\* back on the item list, nothing selected, after a bid on the first item
\* and Back from its details
C23_Witness ==
    /\ currentScreen = "SCREEN_ITEM_LIST"
    /\ selectedItemIndex = -1
    /\ lastInput.pressed
    /\ CheckCollisionPointRec(lastInput.mouse, backButtonRect)
    /\ items[0].currentBid # SeedItems[0].currentBid


\* ------------------------------------------------------------ the message timer
MessageDuration == UI_MESSAGE_DURATION * TicksPerSecond

\* the step is a frame in which SetUIMessage is called
MessageSet == sinceMessage' = 0

\* the step is a frame in which SetUIMessage is not called
NoMessageSet == sinceMessage' # 0

\* C24 (as stated): after SetUIMessage sets a message, if no further message
\* is set, the message is cleared in the first frame at which the frame time
\* accumulated since the set reaches the 3 seconds, and is still displayed in
\* every frame before that; a later SetUIMessage restarts the full duration.
C24_ClearedWhenElapsed ==
    [][/\ NoMessageSet =>
             uiMessage' = IF sinceMessage' >= MessageDuration THEN ""
                          ELSE uiMessage
       /\ MessageSet => uiMessageTimer' = MessageDuration]_vars

\* C24 (amended): after SetUIMessage sets a message, if no further message
\* is set, the message is cleared in the first frame at which the timer, set
\* to 3 seconds and reduced in every frame by the frame time in
\* single-precision arithmetic, is no longer positive, and is still
\* displayed in every frame before that; as long as these subtractions are
\* exact, that frame is the first at which the accumulated frame time
\* reaches 3 seconds; a later SetUIMessage replaces the message and restarts
\* the full duration.
C24_ClearedWhenTimerRunsOut ==
    /\ uiMessage = "" /\ uiMessageTimer <= 0
    /\ [][/\ uiMessage' # "" => uiMessageTimer' > 0
          /\ MessageSet => uiMessageTimer' = MessageDuration
          /\ NoMessageSet /\ uiMessageTimer <= 0 =>
                uiMessageTimer' = uiMessageTimer /\ uiMessage' = ""
          /\ NoMessageSet /\ uiMessageTimer > 0 =>
                /\ uiMessageTimer' = FloatSub(uiMessageTimer, lastInput'.dt)
                /\ uiMessage' = IF uiMessageTimer' <= 0 THEN "" ELSE uiMessage
                /\ (/\ MessageDuration - uiMessageTimer = sinceMessage
                    /\ uiMessageTimer' = uiMessageTimer - lastInput'.dt)
                   => (uiMessageTimer' <= 0 <=> sinceMessage' >= MessageDuration)
         ]_vars

\* the timer has run out in a frame shorter than the duration: the time of
\* several frames has added up since the message was set
C24_Witness ==
    /\ uiMessage = ""
    /\ uiMessageTimer = 0 - 2^24
    /\ sinceMessage = MessageDuration
    /\ lastInput.dt = TicksPerSecond


\* ------------------------------------------------------------ the hash
\* an unsigned int as four digits of base 256, least first; (d * 33 + c)
\* modulo 2^32 by the school method, the carry out of the last digit dropped
Times33Plus(d, c) ==
    LET t1 == d[1] * 33 + c
        t2 == d[2] * 33 + t1 \div 256
        t3 == d[3] * 33 + t2 \div 256
        t4 == d[4] * 33 + t3 \div 256
    IN  <<t1 % 256, t2 % 256, t3 % 256, t4 % 256>>

\* starting from h, h := (h * 33 + byte) mod 2^32 for each byte of p in order
RECURSIVE Djb2(_, _)
Djb2(h, p) == IF p = <<>> THEN h ELSE Djb2(Times33Plus(h, Head(p)), Tail(p))

\* 5381 = 21 * 256 + 5
Djb2Hash(p) ==
    LET d == Djb2(<<5, 21, 0, 0>>, p)
    IN  U32(d[4] * 256 + d[3], d[2] * 256 + d[1])

\* C25: HashPassword(p) is the result of starting from 5381 and applying
\* h := (h * 33 + byte) mod 2^32 to each byte of p in order; it depends only
\* on p and modifies no program state.
C25_HashIsDjb2 ==
    [][lastCall'.op = "HashPassword" =>
          /\ lastCall'.ret = Djb2Hash(lastCall'.password)
          /\ UNCHANGED Globals]_vars

\* the hash of "bobby", 254471571 = 3882 * 2^16 + 60819, is
\* 5381 * 33^5 + .. = 210707869075 reduced modulo 2^32
C25_Witness ==
    /\ lastCall.op = "HashPassword"
    /\ lastCall.password = bobby
    /\ lastCall.ret = U32(3882, 60819)


\* ------------------------------------------------------------ text and letter count
\* C26: in every reachable state and for every input field, the field's text
\* is exactly letterCount characters long (and is what was typed into the
\* field since its last reset): no character typed before a reset is part of
\* the text a later handler reads.
C26_TextIsLetterCountLong ==
    \A k \in 1..Len(Boxes) : StrLen(CStr(Boxes[k].text)) = Boxes[k].letterCount


\* ------------------------------------------------------------ failed registration
\* C27: whenever RegisterUser returns failure (capacity, duplicate username,
\* or a file that cannot be opened for writing), userCount and the users in
\* memory are the same as before the call.
C27_FailedRegisterKeepsUsers ==
    [][lastCall'.op = "RegisterUser" /\ ~lastCall'.ret => users' = users]_vars


\* ------------------------------------------------------------ the Enter key
\* the step is a frame in which Enter is pressed and the mouse is not
EnterFrame ==
    /\ lastCall' = NoCall
    /\ lastInput'.enter
    /\ ~lastInput'.pressed

\* what a frame with Enter and without a press leaves as it is, and what it
\* does to the fields: those of the current screen end up inactive, their
\* text and every other field untouched
EnterOnlyDeactivates ==
    /\ currentScreen' = currentScreen
    /\ loggedInUsername' = loggedInUsername
    /\ users' = users /\ usersFile' = usersFile
    /\ items' = items /\ itemCount' = itemCount
    /\ selectedItemIndex' = selectedItemIndex
    /\ \A k \in 1..Len(Boxes) :
          /\ Content(Boxes[k])' = Content(Boxes[k])
          /\ IF k \in OwnedBoxes(currentScreen) /\ Boxes[k].active
             THEN /\ ~Boxes[k].active'
                  /\ Boxes[k].borderColor' = "DARKGRAY_CUSTOM"
             ELSE Boxes[k]' = Boxes[k]

\* C28 (as stated): a frame in which Enter is pressed and no mouse click
\* occurs never changes the screen, the session, the user store, the catalog
\* or any field's text: its only effect is that the active field of the
\* current screen (if any) becomes inactive.
C28_EnterOnlyDeactivates ==
    [][EnterFrame => EnterOnlyDeactivates]_vars

\* C28 (amended): a frame in which Enter is pressed, no mouse click occurs
\* and neither a character nor Backspace is typed never changes the screen,
\* the session, the user store, the catalog or any field's text: apart from
\* the update of the message timer, its only effect is that the active field
\* of the current screen (if any) becomes inactive.
C28_EnterAloneOnlyDeactivates ==
    [][EnterFrame /\ lastInput'.chars = <<>> /\ ~lastInput'.backspace
          => EnterOnlyDeactivates]_vars

\* after a frame with Enter alone on the sign-in screen: the username typed
\* is still there and no field is active
C28_Witness ==
    /\ lastInput.enter /\ ~lastInput.pressed /\ lastInput.chars = <<>>
    /\ currentScreen = "SCREEN_SIGN_IN"
    /\ CStr(signInUsernameInput.text) = a7
    /\ CStr(signInPasswordInput.text) = a7
    /\ ~signInUsernameInput.active /\ ~signInPasswordInput.active


\* ------------------------------------------------------------ the Backspace key
\* the step is a frame in which Backspace is pressed and the mouse is not
BackspaceFrame ==
    /\ lastCall' = NoCall
    /\ lastInput'.backspace
    /\ ~lastInput'.pressed

\* s without its last character
Front(s) == SubSeq(s, 1, Len(s) - 1)

\* C29: for an active field, Backspace removes exactly the last character
\* when the text is non-empty and is a no-op when the text is empty; typing
\* one accepted character into a field holding fewer than 20 characters and
\* then pressing Backspace restores the previous text and letter count;
\* Backspace on an inactive field changes nothing.
C29_BackspaceRemovesLast ==
    [][BackspaceFrame =>
          \A k \in 1..Len(Boxes) :
              LET before == Boxes[k]
                  after == Boxes'[k]
                  typed == lastInput'.chars
              IN  IF k \in OwnedBoxes(currentScreen) /\ before.active
                  THEN /\ typed = <<>> /\ CStr(before.text) # <<>> =>
                             /\ CStr(after.text) = Front(CStr(before.text))
                             /\ after.letterCount = before.letterCount - 1
                       /\ typed = <<>> /\ CStr(before.text) = <<>> =>
                             Content(after) = Content(before)
                       /\ (/\ Len(typed) = 1 /\ Printable(typed[1])
                           /\ before.letterCount < MAX_INPUT_CHARS) =>
                             /\ CStr(after.text) = CStr(before.text)
                             /\ after.letterCount = before.letterCount
                  ELSE after = before]_vars


\* ------------------------------------------------------------ one transition a frame
\* the step is a frame with a mouse press at a point of rect
PressOn(rect) ==
    /\ lastCall' = NoCall
    /\ lastInput'.pressed
    /\ CheckCollisionPointRec(lastInput'.mouse, rect)

\* the pairs of rectangles tested one after the other in a frame of some
\* screen
TestedTogether ==
    {<<signInButton, signUpButton>>, <<loginButton, signInBackButton>>,
     <<registerButton, signUpBackButton>>,
     <<backButtonRect, placeBidButtonRect>>,
     <<bidButtonRect, cancelButtonRect>>}
    \cup {<<itemRect(i), logoutButtonRect>> : i \in 0..(itemCount - 1)}
    \cup {<<itemRect(ij[1]), itemRect(ij[2])>> :
            ij \in {p \in (0..(itemCount - 1)) \X (0..(itemCount - 1)) :
                       p[1] # p[2]}}

\* the BID! handler accepts what the fields of PlaceBid hold
BidAcceptable ==
    LET newBid == StrToF(CStr(bidAmountInput.text))
    IN  /\ CStr(bidderNameInput.text) # <<>>
        /\ ~FLe(newBid, items[selectedItemIndex].currentBid)
        /\ ~FGt(newBid, BidCeiling)

\* the Register handler registers what the fields of SignUp hold
Registrable ==
    ~TooShort /\ ~Mismatch /\ ~Taken /\ userCount < MAX_USERS /\ lastInput'.canWrite

\* C30: a single frame performs at most one screen transition: once the
\* first button handler of the dispatched screen has changed the screen, no
\* handler evaluated after it in the same frame changes the screen, the
\* session or the selection again; the frame ends in the state the first
\* handler has set.  (No two rectangles a screen tests in one frame share a
\* point.)
C30_OneTransitionPerFrame ==
    /\ \A pair \in TestedTogether : Apart(pair[1], pair[2])
    /\ [][/\ currentScreen = "SCREEN_AUTH_MENU" /\ PressOn(signInButton) =>
                /\ currentScreen' = "SCREEN_SIGN_IN"
                /\ loggedInUsername' = <<>> /\ selectedItemIndex' = -1
          /\ (/\ currentScreen = "SCREEN_SIGN_IN" /\ PressOn(loginButton)
              /\ StoredPair(users, CStr(signInUsernameInput.text),
                            CStr(signInPasswordInput.text))) =>
                /\ currentScreen' = "SCREEN_ITEM_LIST"
                /\ loggedInUsername' = CStr(signInUsernameInput.text)
                /\ selectedItemIndex' = -1
          /\ (/\ currentScreen = "SCREEN_SIGN_UP" /\ PressOn(registerButton)
              /\ Registrable) =>
                /\ currentScreen' = "SCREEN_SIGN_IN"
                /\ loggedInUsername' = <<>> /\ selectedItemIndex' = -1
          /\ \A i \in 0..(itemCount - 1) :
                (/\ currentScreen = "SCREEN_ITEM_LIST" /\ PressOn(itemRect(i))
                 /\ \A j \in 0..(i - 1) : ~PressOn(itemRect(j))) =>
                   /\ currentScreen' = "SCREEN_ITEM_DETAILS"
                   /\ loggedInUsername' = loggedInUsername
                   /\ selectedItemIndex' = i
          /\ currentScreen = "SCREEN_ITEM_DETAILS" /\ PressOn(backButtonRect) =>
                /\ currentScreen' = "SCREEN_ITEM_LIST"
                /\ loggedInUsername' = loggedInUsername
                /\ selectedItemIndex' = -1
          /\ (/\ currentScreen = "SCREEN_PLACE_BID" /\ PressOn(bidButtonRect)
              /\ BidAcceptable) =>
                /\ currentScreen' = "SCREEN_ITEM_DETAILS"
                /\ loggedInUsername' = loggedInUsername
                /\ selectedItemIndex' = selectedItemIndex
                /\ uiMessage' = "Bid of $%.2f placed successfully by %s!"
         ]_vars

\* on the item list after a successful login: the frame of the press on
\* Login ended where the Login handler put it
C30_Witness ==
    /\ lastInput.pressed
    /\ CheckCollisionPointRec(lastInput.mouse, loginButton)
    /\ currentScreen = "SCREEN_ITEM_LIST"
    /\ loggedInUsername = bobby
    /\ selectedItemIndex = -1

\* the longest way back to the authentication menu, in frames: Cancel, Back,
\* Logout
ReturnFrames == 3

\* the buttons and rows that leave the screen of g
ExitRects(g) ==
    CASE g.currentScreen = "SCREEN_AUTH_MENU" -> {signInButton, signUpButton}
      [] g.currentScreen = "SCREEN_SIGN_IN" -> {signInBackButton}
      [] g.currentScreen = "SCREEN_SIGN_UP" -> {signUpBackButton}
      [] g.currentScreen = "SCREEN_ITEM_LIST" ->
            {logoutButtonRect} \cup {itemRect(i) : i \in 0..(g.itemCount - 1)}
      [] g.currentScreen = "SCREEN_ITEM_DETAILS" -> {backButtonRect}
      [] g.currentScreen = "SCREEN_PLACE_BID" -> {cancelButtonRect}

\* a frame with a press in the middle of one of them and no key
ExitClicks(g) ==
    {Input(TRUE, Centre(r), <<>>, FALSE, FALSE, dt) :
        r \in ExitRects(g), dt \in BidEnv.times}

\* from g some sequence of at most n such frames ends on the authentication
\* menu
RECURSIVE ReachesAuthMenu(_, _)
ReachesAuthMenu(g, n) ==
    \/ g.currentScreen = "SCREEN_AUTH_MENU"
    \/ /\ n > 0
       /\ \E in \in ExitClicks(g) : ReachesAuthMenu(UpdateLogic(g, in), n - 1)

\* the current state is no dead end: each exit of its screen is an input the
\* user can give now and its frame changes the screen, and after one of them
\* the authentication menu is at most ReturnFrames - 1 further frames away
NoDeadEnd ==
    /\ ExitClicks(Globals) # {}
    /\ \A in \in ExitClicks(Globals) :
          /\ in \in Inputs(BidEnv) /\ Typed(BidEnv, in)
          /\ UpdateLogic(Globals, in).currentScreen # currentScreen
    /\ \E in \in ExitClicks(Globals) :
          ReachesAuthMenu(UpdateLogic(Globals, in), ReturnFrames - 1)

\* C31: no reachable state is a dead end.  In every reachable state a user
\* event that changes the screen is enabled (AuthMenu: Sign In and Sign Up;
\* SignIn and SignUp: Back; ItemList: Logout and every item row;
\* ItemDetails: Back; PlaceBid: Cancel), and the authentication menu can be
\* reached again from it, by at most ReturnFrames frames of such events.
\* (Every frame of the application is the update logic applied to what the
\* frame reads, so these frames are steps of the application.)
C31_NoDeadEnd ==
    /\ []NoDeadEnd
    /\ [][Globals' = UpdateLogic(Globals, lastInput')]_vars

\* back on the authentication menu by Logout after a bid was placed on the
\* first item: the way Cancel or BID!, Back, Logout has been gone
C31_Witness ==
    /\ currentScreen = "SCREEN_AUTH_MENU"
    /\ lastInput.pressed
    /\ lastInput.mouse = Centre(logoutButtonRect)
    /\ uiMessage = "Logged out successfully."
    /\ items[0].highestBidder = wa

=============================================================================
